---- MODULE Spec2Model ----
(***************************************************************************)
(* Verification model of terraform-provider-prism: the not-found           *)
(* predicate, the dependency-wait helper, the API client, the              *)
(* permission-set-assignment resource (Create / Read / Update / Delete)    *)
(* against a backend that stores one assignment row per account, the       *)
(* cascading delete of a permission set or an AWS account, and the         *)
(* config validation of the identity-provider resource.                    *)
(*                                                                         *)
(* Strings whose contents the code inspects (error messages, composite     *)
(* ids, row ids) are sequences of one-character strings, so that           *)
(* strings.Contains, strings.ToLower, strings.Join and strings.Split are   *)
(* computed and not assumed.                                               *)
(***************************************************************************)
EXTENDS Integers, Sequences, FiniteSets, TLC

VARIABLES
    perr,       \* SpecPred: the error handed to isDependencyNotFoundError
    pexpect,    \* SpecPred: whether perr was built around a not-found core
    pverdict,   \* SpecPred: "none" before the call, else "true" / "false"
    phandler,   \* SpecPred: the same for the not-found test of Read, Delete and the poll
    wkind,      \* SpecWait: resource kind argument of waitForDependency
    wid,        \* SpecWait: resource id argument of waitForDependency
    w,          \* SpecWait: the running waitForDependency call
    wctx,       \* SpecWait: the enclosing context, "live" or "done"
    rows,       \* backend: the assignment rows, in list order
    nextId,     \* backend: number of the next row id it hands out
    state,      \* the assignment resource's tracked Terraform state
    pc,         \* position of the running Create handler, "idle" between handlers
    data,       \* Create: the planned resource (req.Plan), kept while the resource lives
    depIdx,     \* Create: index of the dependency being waited for
    diags,      \* diagnostics of the running / last handler, until something else happens
    calls,      \* API client calls and dependency waits of that handler
    lastOp,     \* the running / last handler, "external" after a change made elsewhere
    assignments,\* Create: what ListPermissionSetAssignments returned
    fanout,     \* ids of the backend rows that stand for the last create call
    created,    \* whether Create has been called: the model follows one resource
    fetched,    \* Read, Delete: what the call for each row id answered
    ownRows,    \* backend: ids of the rows the create call of this resource added
    cparent,    \* cascade: the permission set or AWS account being deleted
    crows,      \* cascade: the assignment rows the backend still returns
    lingering,  \* cascade: ids of rows deleted by the API and not yet cleaned up
    cpc,        \* cascade: position of the running Delete handler
    clist,      \* cascade: what ListPermissionSetAssignments returned
    deletedIDs, \* cascade: ids whose delete call succeeded
    deleteErrors, \* cascade: ids whose delete call failed
    cdiags,     \* cascade: diagnostics of the Delete handler
    ccalls,     \* cascade: the list, delete and parent calls of the Delete handler
    celapsed,   \* cascade: time.Since(startTime) in seconds
    cround,     \* cascade: the fetches of the last poll round and whether it found nothing
    cctx,       \* cascade: the enclosing context, "live" or "done"
    qin,        \* SpecParse: a composite id, and the row ids Create recovered for it
    qread,      \* SpecParse: the row ids Read fetches for it
    qdelete,    \* SpecParse: the row ids Delete tries to delete for it
    hresp,      \* SpecClient: the HTTP response the server sent
    hout,       \* SpecClient: what doRequest returned for it
    iconfig,    \* SpecIdp: the config string of the plan
    istate,     \* SpecIdp: the tracked identity provider
    icalls,     \* SpecIdp: the API client calls of the handler
    idiags,     \* SpecIdp: the diagnostics of the handler
    iop         \* SpecIdp: the handler that ran, "none" before

pvars == <<perr, pexpect, pverdict, phandler>>
wvars == <<wkind, wid, w, wctx>>
avars == <<rows, nextId, state, pc, data, depIdx, diags, calls, lastOp, assignments,
           fanout, created, fetched, ownRows>>
qvars == <<qin, qread, qdelete>>
hvars == <<hresp, hout>>
ivars == <<iconfig, istate, icalls, idiags, iop>>
cvars == <<cparent, crows, lingering, cpc, clist, deletedIDs, deleteErrors, cdiags, ccalls,
           celapsed, cround, cctx>>

----------------------------------------------------------------------------
(* Character strings *)

\* strings.Contains(s, sub)
Contains(s, sub) ==
    \E i \in 0..(Len(s) - Len(sub)) : \A j \in 1..Len(sub) : s[i + j] = sub[j]

\* unicode.ToLower on the letters the model's messages use
LowerChar(c) ==
    CASE c = "N" -> "n" [] c = "O" -> "o" [] c = "T" -> "t" [] c = "F" -> "f"
      [] c = "U" -> "u" [] c = "D" -> "d" [] c = "A" -> "a" [] c = "P" -> "p"
      [] c = "I" -> "i" [] OTHER -> c

UpperChar(c) ==
    CASE c = "n" -> "N" [] c = "o" -> "O" [] c = "t" -> "T" [] c = "f" -> "F"
      [] c = "u" -> "U" [] c = "d" -> "D" [] OTHER -> c

\* strings.ToLower(s)
ToLower(s) == [i \in 1..Len(s) |-> LowerChar(s[i])]

S404 == <<"4", "0", "4">>
SNotFound == <<"n", "o", "t", " ", "f", "o", "u", "n", "d">>
SApiError == <<"A", "P", "I", " ", "e", "r", "r", "o", "r", " ", "(">>
SCloseColon == <<")", ":", " ">>
SErrorChecking ==
    <<"e", "r", "r", "o", "r", " ", "c", "h", "e", "c", "k", "i", "n", "g", " ">>
STimedOutAfter ==
    <<"t", "i", "m", "e", "d", " ", "o", "u", "t", " ", "a", "f", "t", "e", "r", " ">>
SContextCancelled ==
    <<"c", "o", "n", "t", "e", "x", "t", " ", "c", "a", "n", "c", "e", "l", "l", "e", "d">>
SServerBroke == <<"s", "e", "r", "v", "e", "r", " ", "b", "r", "o", "k", "e">>
SForbidden == <<"f", "o", "r", "b", "i", "d", "d", "e", "n">>
SQuote == <<"\"">>
SColon == <<":", " ">>

\* A Go error value: nil, or an error with a message
Nil == [isNil |-> TRUE, msg |-> <<>>]
Err(m) == [isNil |-> FALSE, msg |-> m]

----------------------------------------------------------------------------
(* isDependencyNotFoundError *)

isDependencyNotFoundErrorCaseSensitive(err) ==
    /\ ~err.isNil
    /\ \/ Contains(err.msg, S404)
       \/ Contains(err.msg, SNotFound)

isDependencyNotFoundError(err) ==
    /\ ~err.isNil
    /\ \/ Contains(err.msg, S404)
       \/ Contains(ToLower(err.msg), SNotFound)


----------------------------------------------------------------------------
(* Inputs of the not-found predicate *)

\* longest run of filler characters put around a message core
MaxPad == 1

PadChars == {"x", " "}

RECURSIVE SeqsUpTo(_, _)
SeqsUpTo(S, n) ==
    IF n = 0 THEN {<<>>}
    ELSE LET shorter == SeqsUpTo(S, n - 1)
         IN shorter \cup {Append(q, c) : q \in {t \in shorter : Len(t) = n - 1}, c \in S}

Pads == SeqsUpTo(PadChars, MaxPad)

\* "not found" with the letters at the positions in up written in upper case
NotFoundVariant(up) ==
    [i \in 1..Len(SNotFound) |-> IF i \in up THEN UpperChar(SNotFound[i]) ELSE SNotFound[i]]

\* cores that make a message a not-found message, whatever surrounds them
NotFoundCores == {S404} \cup {NotFoundVariant(up) : up \in SUBSET {1, 2, 3, 5, 6, 7, 8, 9}}

\* cores that do not, with any padding drawn from PadChars
OtherCores ==
    { <<>>, <<"4", "0", "3">>, <<"5", "0", "0">>, <<"4", "0", " ", "4">>,
      <<"n", "o", "t", "f", "o", "u", "n", "d">>,
      <<"n", "o", "t", " ", " ", "f", "o", "u", "n", "d">>,
      <<"N", "0", "T", " ", "F", "0", "U", "N", "D">>,
      SForbidden, SServerBroke }

Prefixes == Pads \cup {SApiError}

PredInputs ==
    {[err |-> Nil, expect |-> FALSE]}
    \cup {[err |-> Err(pre \o core \o suf), expect |-> TRUE] :
            pre \in Prefixes, core \in NotFoundCores, suf \in Pads}
    \cup {[err |-> Err(pre \o core \o suf), expect |-> FALSE] :
            pre \in Prefixes, core \in OtherCores, suf \in Pads}

----------------------------------------------------------------------------
(* waitForDependency *)

Chars(name) ==
    CASE name = "permission_set" -> <<"p", "e", "r", "m", "i", "s", "s", "i", "o", "n", "_", "s", "e", "t">>
      [] name = "aws_account" -> <<"a", "w", "s", "_", "a", "c", "c", "o", "u", "n", "t">>
      [] name = "user" -> <<"u", "s", "e", "r">>
      [] name = "group" -> <<"g", "r", "o", "u", "p">>
      [] name = "test_resource" -> <<"t", "e", "s", "t", "_", "r", "e", "s", "o", "u", "r", "c", "e">>
      [] name = "test-id" -> <<"t", "e", "s", "t", "-", "i", "d">>
      [] name = "p1" -> <<"p", "1">>
      [] name = "p2" -> <<"p", "2">>
      [] name = "A" -> <<"A">>
      [] name = "B" -> <<"B">>
      [] name = "dev" -> <<"d", "e", "v">>
      [] name = "ops" -> <<"o", "p", "s">>
      [] name = "USER" -> <<"U", "S", "E", "R">>
      [] name = "GROUP" -> <<"G", "R", "O", "U", "P">>

\* overall budget and poll interval of waitForDependency, in seconds
DependencyTimeout == 60
DependencyPollInterval == 2

\* the probe results the tests use: nil, a 404, a "Not Found" and a 500
ProbeOutcomes ==
    { [err |-> Nil, class |-> "ok"],
      [err |-> Err(SApiError \o S404 \o SCloseColon \o SNotFound), class |-> "nf"],
      [err |-> Err(NotFoundVariant({1, 5})), class |-> "nf"],
      [err |-> Err(SApiError \o <<"5", "0", "0">> \o SCloseColon \o SServerBroke),
       class |-> "other"] }

WaitStart ==
    [pc |-> "probe", calls |-> 0, sleeps |-> 0, elapsed |-> 0, result |-> Nil, last |-> "none",
     nfs |-> 0]

\* %s %q of the resource kind and id
KindAndId(kind, id) == Chars(kind) \o <<" ">> \o SQuote \o Chars(id) \o SQuote

\* one probe call and the handling of what it returns
WaitProbeRetryAll(ws, kind, id, out) ==
    LET called == [ws EXCEPT !.calls = @ + 1, !.last = out.class,
                             !.nfs = IF out.class = "nf" THEN @ + 1 ELSE @]
    IN  IF out.err.isNil
        THEN [called EXCEPT !.pc = "done", !.result = Nil]
        ELSE IF ws.elapsed >= DependencyTimeout
        THEN [called EXCEPT !.pc = "done",
                            !.result = Err(STimedOutAfter \o KindAndId(kind, id))]
        ELSE [called EXCEPT !.pc = "select"]

WaitProbeSleepFirst(ws, kind, id, out) ==
    LET called == [ws EXCEPT !.calls = @ + 1, !.last = out.class,
                             !.nfs = IF out.class = "nf" THEN @ + 1 ELSE @,
                             !.sleeps = @ + 1, !.elapsed = @ + DependencyPollInterval]
    IN  IF out.err.isNil
        THEN [called EXCEPT !.pc = "done", !.result = Nil]
        ELSE IF ~isDependencyNotFoundError(out.err)
        THEN [called EXCEPT !.pc = "done",
                            !.result = Err(SErrorChecking \o KindAndId(kind, id)
                                           \o SColon \o out.err.msg)]
        ELSE IF ws.elapsed >= DependencyTimeout
        THEN [called EXCEPT !.pc = "done",
                            !.result = Err(STimedOutAfter \o KindAndId(kind, id))]
        ELSE [called EXCEPT !.pc = "probe"]

WaitProbeEarlyTimeout(ws, kind, id, out) ==
    LET called == [ws EXCEPT !.calls = @ + 1, !.last = out.class,
                             !.nfs = IF out.class = "nf" THEN @ + 1 ELSE @]
    IN  IF out.err.isNil
        THEN [called EXCEPT !.pc = "done", !.result = Nil]
        ELSE IF ~isDependencyNotFoundError(out.err)
        THEN [called EXCEPT !.pc = "done",
                            !.result = Err(SErrorChecking \o KindAndId(kind, id)
                                           \o SColon \o out.err.msg)]
        ELSE IF ws.elapsed >= DependencyPollInterval
        THEN [called EXCEPT !.pc = "done",
                            !.result = Err(STimedOutAfter \o KindAndId(kind, id))]
        ELSE [called EXCEPT !.pc = "select"]

WaitProbe(ws, kind, id, out) ==
    LET called == [ws EXCEPT !.calls = @ + 1, !.last = out.class,
                             !.nfs = IF out.class = "nf" THEN @ + 1 ELSE @]
    IN  IF out.err.isNil
        THEN [called EXCEPT !.pc = "done", !.result = Nil]
        ELSE IF ~isDependencyNotFoundError(out.err)
        THEN [called EXCEPT !.pc = "done",
                            !.result = Err(SErrorChecking \o KindAndId(kind, id)
                                           \o SColon \o out.err.msg)]
        ELSE IF ws.elapsed >= DependencyTimeout
        THEN [called EXCEPT !.pc = "done",
                            !.result = Err(STimedOutAfter \o KindAndId(kind, id))]
        ELSE [called EXCEPT !.pc = "select"]

\* the wait between two probes: the context's Done channel or the poll interval
WaitSelectIgnoresCtx(ws, kind, id, ctxDone) ==
    [ws EXCEPT !.pc = "probe", !.sleeps = @ + 1, !.elapsed = @ + DependencyPollInterval]

WaitSelectReportsTimeout(ws, kind, id, ctxDone) ==
    IF ctxDone
    THEN [ws EXCEPT !.pc = "done", !.result = Err(STimedOutAfter \o KindAndId(kind, id))]
    ELSE [ws EXCEPT !.pc = "probe", !.sleeps = @ + 1,
                    !.elapsed = @ + DependencyPollInterval]

WaitSelect(ws, kind, id, ctxDone) ==
    IF ctxDone
    THEN [ws EXCEPT !.pc = "done",
                    !.result = Err(SContextCancelled \o <<" ">> \o KindAndId(kind, id))]
    ELSE [ws EXCEPT !.pc = "probe", !.sleeps = @ + 1,
                    !.elapsed = @ + DependencyPollInterval]

\* waitForDependency run to its return: the probe answers script[i] on call i
\* (the last entry from then on) and the context is done after cancelAt sleeps
RECURSIVE waitForDependency(_, _, _, _, _)
waitForDependency(ws, kind, id, script, cancelAt) ==
    IF ws.pc = "done" THEN ws
    ELSE IF ws.pc = "probe"
    THEN LET i == IF ws.calls + 1 <= Len(script) THEN ws.calls + 1 ELSE Len(script)
         IN waitForDependency(WaitProbe(ws, kind, id, script[i]), kind, id, script, cancelAt)
    ELSE waitForDependency(WaitSelect(ws, kind, id, ws.sleeps >= cancelAt),
                           kind, id, script, cancelAt)

----------------------------------------------------------------------------
(* The API client: error formatting, envelope unwrapping *)

SApiRequestFailed ==
    <<"A", "P", "I", " ", "r", "e", "q", "u", "e", "s", "t", " ", "f", "a", "i", "l", "e", "d",
      ":", " ">>

\* %d of an HTTP status code
StatusChars(status) ==
    CASE status = 200 -> <<"2", "0", "0">>
      [] status = 201 -> <<"2", "0", "1">>
      [] status = 304 -> <<"3", "0", "4">>
      [] status = 404 -> S404
      [] status = 500 -> <<"5", "0", "0">>

NoData == [none |-> TRUE]

\* an HTTP response: status, raw body, and the envelope when the body has one
Http(status, body, success, error, payload) ==
    [status |-> status, body |-> body, parses |-> TRUE, success |-> success,
     error |-> error, payload |-> payload]

\* an HTTP response whose body json.Unmarshal rejects
HttpRaw(status, body) ==
    [status |-> status, body |-> body, parses |-> FALSE, success |-> FALSE,
     error |-> <<>>, payload |-> NoData]

SFailedToUnmarshal ==
    <<"f", "a", "i", "l", "e", "d", " ", "t", "o", " ", "u", "n", "m", "a", "r", "s", "h", "a",
      "l", " ", "A", "P", "I", " ", "r", "e", "s", "p", "o", "n", "s", "e", ":", " ">>

Resp200(payload) == Http(200, <<>>, TRUE, <<>>, payload)
Resp404 == Http(404, SNotFound, FALSE, <<>>, NoData)
Resp500 == Http(500, SServerBroke, FALSE, <<>>, NoData)

unwrapAPIResponse(resp) ==
    IF ~resp.parses
    THEN [err |-> Err(SFailedToUnmarshal), payload |-> NoData]
    ELSE IF ~resp.success
    THEN [err |-> Err(SApiRequestFailed \o resp.error), payload |-> NoData]
    ELSE [err |-> Nil, payload |-> resp.payload]

doRequest(resp) ==
    IF resp.status >= 400
    THEN [err |-> Err(SApiError \o StatusChars(resp.status) \o SCloseColon \o resp.body),
          payload |-> NoData]
    ELSE unwrapAPIResponse(resp)

----------------------------------------------------------------------------
(* The backend: one assignment row per (permission set, principal, account) *)

\* most account ids in one resource
MaxAccts == 2

PermSets == {"p1", "p2"}
PrincipalTypes == {"USER", "GROUP"}
PrincipalNames == {"dev", "ops"}
Accounts == {"A", "B"}

\* most rows the backend ever created: one made elsewhere and one per account
MaxRows == Cardinality(Accounts) + 1

Digit(n) ==
    CASE n = 0 -> "0" [] n = 1 -> "1" [] n = 2 -> "2" [] n = 3 -> "3" [] n = 4 -> "4"
      [] n = 5 -> "5" [] n = 6 -> "6" [] n = 7 -> "7" [] n = 8 -> "8" [] n = 9 -> "9"

\* the opaque id of the n-th row the backend created
RowId(n) == IF n < 10 THEN <<"r", Digit(n)>> ELSE <<"r", Digit(n \div 10), Digit(n % 10)>>

\* a backend row as the client decodes it (PermissionSetAssignment)
Row(id, ps, ptype, name, acct) ==
    [ID |-> id, PermissionSetID |-> ps, PrincipalType |-> ptype, AccountID |-> acct,
     Username |-> IF ptype = "USER" THEN name ELSE "",
     GroupName |-> IF ptype = "GROUP" THEN name ELSE ""]

RowIds(rs) == {rs[i].ID : i \in 1..Len(rs)}

\* the elements of a slice
Range(q) == {q[i] : i \in 1..Len(q)}

SetMin(S) == CHOOSE x \in S : \A y \in S : x <= y

\* the row that stands for a (permission set, principal, account) triple, 0 if none
TripleIndex(rs, ps, ptype, name, acct) ==
    LET hits == {i \in 1..Len(rs) :
                    /\ rs[i].PermissionSetID = ps
                    /\ rs[i].PrincipalType = ptype
                    /\ rs[i].AccountID = acct
                    /\ (IF ptype = "USER" THEN rs[i].Username ELSE rs[i].GroupName) = name}
    IN IF hits = {} THEN 0 ELSE SetMin(hits)

\* POST /permission-set-assignments: the backend fans the request out into one
\* row per account id, and keeps a triple it already holds
RECURSIVE BackendFanOut(_, _, _, _)
BackendFanOut(rs, n, d, i) ==
    IF i > Len(d.AccountIDs) THEN [rows |-> rs, nextId |-> n]
    ELSE IF TripleIndex(rs, d.PermissionSetID, d.PrincipalType, d.PrincipalID,
                        d.AccountIDs[i]) # 0
    THEN BackendFanOut(rs, n, d, i + 1)
    ELSE BackendFanOut(Append(rs, Row(RowId(n), d.PermissionSetID, d.PrincipalType,
                                      d.PrincipalID, d.AccountIDs[i])),
                       n + 1, d, i + 1)

\* GET /permission-set-assignments/<id>
BackendGet(rs, id) ==
    LET hits == {i \in 1..Len(rs) : rs[i].ID = id}
    IN IF hits = {} THEN Resp404 ELSE Resp200(rs[SetMin(hits)])

\* DELETE /permission-set-assignments/<id>: the rows that are left
BackendDelete(rs, id) == SelectSeq(rs, LAMBDA r : r.ID # id)

----------------------------------------------------------------------------
(* The assignment resource: pure parts of Create and Read *)

SComma == <<",">>

\* strings.Join(ids, ",")
RECURSIVE Join(_)
Join(ids) ==
    IF Len(ids) = 0 THEN <<>>
    ELSE IF Len(ids) = 1 THEN ids[1]
    ELSE ids[1] \o SComma \o Join(Tail(ids))

\* strings.Split(s, ","): never empty, Split("") is one empty string
RECURSIVE Split(_)
Split(s) ==
    LET commas == {i \in 1..Len(s) : s[i] = ","}
    IN IF commas = {} THEN <<s>>
       ELSE LET i == SetMin(commas)
            IN <<SubSeq(s, 1, i - 1)>> \o Split(SubSeq(s, i + 1, Len(s)))

Diag(sev, summary, arg) == [sev |-> sev, summary |-> summary, arg |-> arg]
HasError(ds) == \E i \in 1..Len(ds) : ds[i].sev = "error"
Warnings(ds, summary) ==
    SelectSeq(ds, LAMBDA d : d.sev = "warning" /\ d.summary = summary)

NoState == [present |-> FALSE, ID |-> <<>>, PermissionSetID |-> "", PrincipalType |-> "",
            PrincipalID |-> "", AccountIDs |-> <<>>]
NoPlan == [PermissionSetID |-> "", PrincipalType |-> "", PrincipalID |-> "",
           AccountIDs |-> <<>>]

\* the waits Create makes before the create call, in order
DependenciesNoPrincipal(d) ==
    <<[kind |-> "permission_set", id |-> d.PermissionSetID]>>
    \o [i \in 1..Len(d.AccountIDs) |-> [kind |-> "aws_account", id |-> d.AccountIDs[i]]]

Dependencies(d) ==
    <<[kind |-> "permission_set", id |-> d.PermissionSetID]>>
    \o [i \in 1..Len(d.AccountIDs) |-> [kind |-> "aws_account", id |-> d.AccountIDs[i]]]
    \o (IF d.PrincipalType = "USER"
        THEN <<[kind |-> "user", id |-> d.PrincipalID]>>
        ELSE IF d.PrincipalType = "GROUP"
        THEN <<[kind |-> "group", id |-> d.PrincipalID]>>
        ELSE <<>>)

\* whether a listed row is the assignment of the planned principal for acctID
MatchesAnyAccount(apiAssignment, d, acctID) ==
    /\ apiAssignment.PermissionSetID = d.PermissionSetID
    /\ apiAssignment.PrincipalType = d.PrincipalType
    /\ \/ d.PrincipalType = "USER" /\ apiAssignment.Username = d.PrincipalID
       \/ d.PrincipalType = "GROUP" /\ apiAssignment.GroupName = d.PrincipalID

Matches(apiAssignment, d, acctID) ==
    /\ apiAssignment.PermissionSetID = d.PermissionSetID
    /\ apiAssignment.PrincipalType = d.PrincipalType
    /\ apiAssignment.AccountID = acctID
    /\ \/ d.PrincipalType = "USER" /\ apiAssignment.Username = d.PrincipalID
       \/ d.PrincipalType = "GROUP" /\ apiAssignment.GroupName = d.PrincipalID

\* index of the first listed row that matches acctID, 0 when none does
FirstMatch(list, d, acctID) ==
    LET hits == {i \in 1..Len(list) : Matches(list[i], d, acctID)}
    IN IF hits = {} THEN 0 ELSE SetMin(hits)

\* the loop over the requested accounts: the recovered row ids and the
\* accounts for which no row was found, both in the order of the request
RECURSIVE MatchLoop(_, _, _, _)
MatchLoop(list, d, i, acc) ==
    IF i > Len(d.AccountIDs) THEN acc
    ELSE LET acctID == d.AccountIDs[i]
             m == FirstMatch(list, d, acctID)
         IN MatchLoop(list, d, i + 1,
                      IF m = 0
                      THEN [acc EXCEPT !.missing = Append(@, acctID)]
                      ELSE [acc EXCEPT !.ids = Append(@, list[m].ID)])

createdAssignmentIDs(list, d) == MatchLoop(list, d, 1, [ids |-> <<>>, missing |-> <<>>]).ids
notFoundAccounts(list, d) == MatchLoop(list, d, 1, [ids |-> <<>>, missing |-> <<>>]).missing

\* what Create does with the list result: diagnostics and the state it persists
CreateReconcileStrict(list, d, st) ==
    LET ids == createdAssignmentIDs(list, d)
        missing == notFoundAccounts(list, d)
        warns == [i \in 1..Len(missing) |-> Diag("warning", "Assignment Not Found", missing[i])]
    IN IF Len(missing) > 0
       THEN [diags |-> warns \o <<Diag("error", "No Assignments Found", "")>>, state |-> st]
       ELSE [diags |-> warns,
             state |-> [present |-> TRUE, ID |-> Join(ids),
                        PermissionSetID |-> d.PermissionSetID,
                        PrincipalType |-> d.PrincipalType,
                        PrincipalID |-> d.PrincipalID,
                        AccountIDs |-> d.AccountIDs]]

CreateReconcile(list, d, st) ==
    LET ids == createdAssignmentIDs(list, d)
        missing == notFoundAccounts(list, d)
        warns == [i \in 1..Len(missing) |-> Diag("warning", "Assignment Not Found", missing[i])]
    IN IF Len(ids) = 0
       THEN [diags |-> warns \o <<Diag("error", "No Assignments Found", "")>>, state |-> st]
       ELSE [diags |-> warns,
             state |-> [present |-> TRUE, ID |-> Join(ids),
                        PermissionSetID |-> d.PermissionSetID,
                        PrincipalType |-> d.PrincipalType,
                        PrincipalID |-> d.PrincipalID,
                        AccountIDs |-> d.AccountIDs]]

\* the not-found test Read and Delete apply to an error of the client
isNotFoundText(err) == Contains(err.msg, S404) \/ Contains(err.msg, SNotFound)

\* Read's loop over the row ids: one GetPermissionSetAssignment per id
ReadFetch(ids, resps) ==
    [i \in 1..Len(ids) |->
        LET res == doRequest(resps[i])
        IN [id |-> ids[i], status |-> resps[i].status, ok |-> res.err.isNil,
            notFound |-> ~res.err.isNil /\ isNotFoundText(res.err),
            assignment |-> res.payload]]

\* what Read does with the fetched rows: diagnostics and the state it leaves
ReadReconcileKeepEmpty(st, got) ==
    LET existing == SelectSeq(got, LAMBDA f : f.ok)
        failed == SelectSeq(got, LAMBDA f : ~f.ok /\ ~f.notFound)
        apiWarns == [i \in 1..Len(failed) |-> Diag("warning", "API Error", "")]
        drift == IF Len(existing) < Len(got)
                 THEN <<Diag("warning", "Partial Assignment Drift", "")>> ELSE <<>>
    IN IF Len(existing) = 0
       THEN [diags |-> apiWarns \o drift, state |-> [st EXCEPT !.AccountIDs = <<>>]]
       ELSE LET firstAssignment == existing[1].assignment
            IN [diags |-> apiWarns \o drift,
                state |-> [st EXCEPT
                    !.PermissionSetID = firstAssignment.PermissionSetID,
                    !.PrincipalType = firstAssignment.PrincipalType,
                    !.PrincipalID = IF firstAssignment.PrincipalType = "USER"
                                    THEN firstAssignment.Username
                                    ELSE firstAssignment.GroupName,
                    !.AccountIDs = [i \in 1..Len(existing) |->
                                        existing[i].assignment.AccountID]]]

ReadReconcileFirstOnly(st, got) ==
    LET existing == SelectSeq(got, LAMBDA f : f.ok)
        failed == SelectSeq(got, LAMBDA f : ~f.ok /\ ~f.notFound)
        apiWarns == [i \in 1..Len(failed) |-> Diag("warning", "API Error", "")]
        drift == IF Len(existing) < Len(got)
                 THEN <<Diag("warning", "Partial Assignment Drift", "")>> ELSE <<>>
    IN IF Len(got) = 0
       THEN [diags |-> <<Diag("error", "Invalid State", "")>>, state |-> st]
       ELSE IF Len(existing) = 0
       THEN [diags |-> apiWarns, state |-> NoState]
       ELSE LET firstAssignment == existing[1].assignment
            IN [diags |-> apiWarns \o drift,
                state |-> [st EXCEPT
                    !.PermissionSetID = firstAssignment.PermissionSetID,
                    !.PrincipalType = firstAssignment.PrincipalType,
                    !.PrincipalID = IF firstAssignment.PrincipalType = "USER"
                                    THEN firstAssignment.Username
                                    ELSE firstAssignment.GroupName,
                    !.AccountIDs = <<firstAssignment.AccountID>>]]

ReadReconcileNoDrift(st, got) ==
    LET existing == SelectSeq(got, LAMBDA f : f.ok)
        failed == SelectSeq(got, LAMBDA f : ~f.ok /\ ~f.notFound)
        apiWarns == [i \in 1..Len(failed) |-> Diag("warning", "API Error", "")]
    IN IF Len(got) = 0
       THEN [diags |-> <<Diag("error", "Invalid State", "")>>, state |-> st]
       ELSE IF Len(existing) = 0
       THEN [diags |-> apiWarns, state |-> NoState]
       ELSE LET firstAssignment == existing[1].assignment
            IN [diags |-> apiWarns,
                state |-> [st EXCEPT
                    !.PermissionSetID = firstAssignment.PermissionSetID,
                    !.PrincipalType = firstAssignment.PrincipalType,
                    !.PrincipalID = IF firstAssignment.PrincipalType = "USER"
                                    THEN firstAssignment.Username
                                    ELSE firstAssignment.GroupName,
                    !.AccountIDs = [i \in 1..Len(existing) |->
                                        existing[i].assignment.AccountID]]]

ReadReconcileRewritesId(st, got) ==
    LET existing == SelectSeq(got, LAMBDA f : f.ok)
        failed == SelectSeq(got, LAMBDA f : ~f.ok /\ ~f.notFound)
        apiWarns == [i \in 1..Len(failed) |-> Diag("warning", "API Error", "")]
        drift == IF Len(existing) < Len(got)
                 THEN <<Diag("warning", "Partial Assignment Drift", "")>> ELSE <<>>
    IN IF Len(got) = 0
       THEN [diags |-> <<Diag("error", "Invalid State", "")>>, state |-> st]
       ELSE IF Len(existing) = 0
       THEN [diags |-> apiWarns, state |-> NoState]
       ELSE LET firstAssignment == existing[1].assignment
            IN [diags |-> apiWarns \o drift,
                state |-> [st EXCEPT
                    !.ID = Join([i \in 1..Len(existing) |-> existing[i].id]),
                    !.PermissionSetID = firstAssignment.PermissionSetID,
                    !.PrincipalType = firstAssignment.PrincipalType,
                    !.PrincipalID = IF firstAssignment.PrincipalType = "USER"
                                    THEN firstAssignment.Username
                                    ELSE firstAssignment.GroupName,
                    !.AccountIDs = [i \in 1..Len(existing) |->
                                        existing[i].assignment.AccountID]]]

ReadReconcile(st, got) ==
    LET existing == SelectSeq(got, LAMBDA f : f.ok)
        failed == SelectSeq(got, LAMBDA f : ~f.ok /\ ~f.notFound)
        apiWarns == [i \in 1..Len(failed) |-> Diag("warning", "API Error", "")]
        drift == IF Len(existing) < Len(got)
                 THEN <<Diag("warning", "Partial Assignment Drift", "")>> ELSE <<>>
    IN IF Len(got) = 0
       THEN [diags |-> <<Diag("error", "Invalid State", "")>>, state |-> st]
       ELSE IF Len(existing) = 0
       THEN [diags |-> apiWarns, state |-> NoState]
       ELSE LET firstAssignment == existing[1].assignment
            IN [diags |-> apiWarns \o drift,
                state |-> [st EXCEPT
                    !.PermissionSetID = firstAssignment.PermissionSetID,
                    !.PrincipalType = firstAssignment.PrincipalType,
                    !.PrincipalID = IF firstAssignment.PrincipalType = "USER"
                                    THEN firstAssignment.Username
                                    ELSE firstAssignment.GroupName,
                    !.AccountIDs = [i \in 1..Len(existing) |->
                                        existing[i].assignment.AccountID]]]

\* Delete's loop over the row ids: the rows left, the ids that failed
\* (deleteErrors) and what each delete call answered
DeleteLoopFirstOnly(rs, ids, fails, i, failedIds, answers) ==
    LET resp == IF fails[1] THEN Resp500
                ELSE IF ids[1] \in RowIds(rs) THEN Resp200(NoData) ELSE Resp404
        err == doRequest(resp).err
        bad == ~(err.isNil \/ isNotFoundText(err))
    IN [rows |-> IF fails[1] THEN rs ELSE BackendDelete(rs, ids[1]),
        failed |-> IF bad THEN <<ids[1]>> ELSE <<>>,
        answers |-> <<[id |-> ids[1], status |-> resp.status, ok |-> err.isNil,
                       notFound |-> ~err.isNil /\ isNotFoundText(err),
                       assignment |-> NoData]>>]

RECURSIVE DeleteLoop(_, _, _, _, _, _)
DeleteLoop(rs, ids, fails, i, failedIds, answers) ==
    IF i > Len(ids) THEN [rows |-> rs, failed |-> failedIds, answers |-> answers]
    ELSE LET resp == IF fails[i] THEN Resp500
                     ELSE IF ids[i] \in RowIds(rs) THEN Resp200(NoData) ELSE Resp404
             err == doRequest(resp).err
         IN DeleteLoop(IF fails[i] THEN rs ELSE BackendDelete(rs, ids[i]), ids, fails, i + 1,
                       IF err.isNil \/ isNotFoundText(err) THEN failedIds
                       ELSE Append(failedIds, ids[i]),
                       Append(answers,
                              [id |-> ids[i], status |-> resp.status, ok |-> err.isNil,
                               notFound |-> ~err.isNil /\ isNotFoundText(err),
                               assignment |-> NoData]))

\* Update, lines 318-324: what it reports, the calls it makes and the state it
\* leaves, whatever the plan
UpdateReconcileAppliesPlan(st, plan) ==
    [diags |-> <<Diag("error", "Update Not Supported", "")>>,
     calls |-> <<>>,
     state |-> [st EXCEPT !.AccountIDs = plan.AccountIDs,
                          !.PrincipalType = plan.PrincipalType]]

UpdateReconcile(st, plan) ==
    [diags |-> <<Diag("error", "Update Not Supported", "")>>,
     calls |-> <<>>,
     state |-> st]

Call(op, kind, id, ok) == [op |-> op, kind |-> kind, id |-> id, ok |-> ok]

----------------------------------------------------------------------------
(* Spec: the assignment resource against the backend *)


ProbeOk == [err |-> Nil, class |-> "ok"]
ProbeNotFound == [err |-> doRequest(Resp404).err, class |-> "nf"]
ProbeFailed == [err |-> doRequest(Resp500).err, class |-> "other"]

\* what the probe of a dependency answers, call by call (the last answer
\* repeats): visible at once or after a poll, failing at once or after a
\* poll, or never visible
ProbeScripts ==
    { <<ProbeOk>>, <<ProbeNotFound, ProbeOk>>, <<ProbeFailed>>,
      <<ProbeNotFound, ProbeFailed>>, <<ProbeNotFound>> }

\* the context is done after this many poll waits; DependencyTimeout: never
CancelPoints == {1, DependencyTimeout}

\* the resource under study assigns permission set p1 to the user or the group
\* named dev; rows of other permission sets and principals are made elsewhere
\* every wait Create can make, computed once: waitForDependency on each
\* dependency of a plan, probe script and cancellation point
WaitTargets ==
    {<<"permission_set", "p1">>, <<"user", "dev">>, <<"group", "dev">>}
    \cup {<<"aws_account", a>> : a \in Accounts}

WaitOutcome ==
    [t \in WaitTargets, script \in ProbeScripts, cancelAt \in CancelPoints |->
        waitForDependency(WaitStart, t[1], t[2], script, cancelAt).result]

Plans ==
    [PermissionSetID : {"p1"}, PrincipalType : PrincipalTypes,
     PrincipalID : {"dev"}, AccountIDs : SeqsUpTo(Accounts, MaxAccts)]

\* what the backend holds before the resource is created: nothing, or one
\* assignment for account A made elsewhere (by hand, or by another resource)
PreExisting ==
    {<<>>} \cup {<<Row(RowId(1), ps, ptype, name, "A")>> :
                    ps \in PermSets, ptype \in PrincipalTypes, name \in PrincipalNames}

AssignInit ==
    /\ rows \in PreExisting
    /\ nextId = Len(rows) + 1
    /\ state = NoState
    /\ pc = "idle"
    /\ data = NoPlan
    /\ depIdx = 0
    /\ diags = <<>>
    /\ calls = <<>>
    /\ lastOp = "none"
    /\ assignments = <<>>
    /\ fanout = {}
    /\ created = FALSE
    /\ fetched = <<>>
    /\ ownRows = {}

\* Create, lines 103-129: the plan is read
CreateBegin ==
    /\ pc = "idle"
    /\ ~state.present
    /\ ~created
    /\ created' = TRUE
    /\ \E d \in Plans :
        /\ BackendFanOut(rows, nextId, d, 1).nextId - 1 <= MaxRows
        /\ data' = d
    /\ pc' = "wait"
    /\ depIdx' = 1
    /\ diags' = <<>>
    /\ calls' = <<>>
    /\ lastOp' = "Create"
    /\ assignments' = <<>>
    /\ fanout' = {}
    /\ fetched' = <<>>
    /\ UNCHANGED <<rows, nextId, state, ownRows>>

\* Create, lines 131-169: one waitForDependency call
CreateWait ==
    /\ pc = "wait"
    /\ LET deps == Dependencies(data)
           dep == deps[depIdx]
       IN \E script \in ProbeScripts, cancelAt \in CancelPoints :
            LET err == WaitOutcome[<<dep.kind, dep.id>>, script, cancelAt]
            IN /\ calls' = Append(calls, Call("waitForDependency", dep.kind, dep.id,
                                              err.isNil))
               /\ IF err.isNil
                  THEN /\ diags' = diags
                       /\ IF depIdx = Len(deps)
                          THEN pc' = "create" /\ depIdx' = depIdx
                          ELSE pc' = "wait" /\ depIdx' = depIdx + 1
                  ELSE /\ diags' = Append(diags, Diag("error", "Dependency Error", dep.kind))
                       /\ pc' = "idle"
                       /\ depIdx' = depIdx
    /\ UNCHANGED <<rows, nextId, state, data, lastOp, assignments, fanout, created, fetched,
                   ownRows>>

\* Create, lines 171-175: the create call
CreateCallRetries ==
    /\ pc = "create"
    /\ \E fails \in BOOLEAN :
        LET res == doRequest(IF fails THEN Resp500 ELSE Resp200(NoData))
            out == BackendFanOut(rows, nextId, data, 1)
        IN /\ calls' = Append(calls, Call("CreatePermissionSetAssignment", "", "",
                                          res.err.isNil))
           /\ IF res.err.isNil
              THEN /\ rows' = out.rows
                   /\ nextId' = out.nextId
                   /\ fanout' = {out.rows[TripleIndex(out.rows, data.PermissionSetID,
                                     data.PrincipalType, data.PrincipalID,
                                     data.AccountIDs[i])].ID : i \in 1..Len(data.AccountIDs)}
                   /\ ownRows' = RowIds(out.rows) \ RowIds(rows)
                   /\ diags' = diags
                   /\ pc' = "list"
              ELSE /\ diags' = diags
                   /\ pc' = "create"
                   /\ UNCHANGED <<rows, nextId, fanout, ownRows>>
    /\ UNCHANGED <<state, data, depIdx, lastOp, assignments, created, fetched>>

CreateCall ==
    /\ pc = "create"
    /\ \E fails \in BOOLEAN :
        LET res == doRequest(IF fails THEN Resp500 ELSE Resp200(NoData))
            out == BackendFanOut(rows, nextId, data, 1)
        IN /\ calls' = Append(calls, Call("CreatePermissionSetAssignment", "", "",
                                          res.err.isNil))
           /\ IF res.err.isNil
              THEN /\ rows' = out.rows
                   /\ nextId' = out.nextId
                   /\ fanout' = {out.rows[TripleIndex(out.rows, data.PermissionSetID,
                                     data.PrincipalType, data.PrincipalID,
                                     data.AccountIDs[i])].ID : i \in 1..Len(data.AccountIDs)}
                   /\ ownRows' = RowIds(out.rows) \ RowIds(rows)
                   /\ diags' = diags
                   /\ pc' = "list"
              ELSE /\ diags' = Append(diags, Diag("error", "Client Error", ""))
                   /\ pc' = "idle"
                   /\ UNCHANGED <<rows, nextId, fanout, ownRows>>
    /\ UNCHANGED <<state, data, depIdx, lastOp, assignments, created, fetched>>

\* Create, lines 177-239: the list call, the matching and the state write;
\* rows of the fan-out that are not visible yet are missing from the list
CreateList ==
    /\ pc = "list"
    /\ \E fails \in BOOLEAN, hidden \in SUBSET fanout :
        LET list == SelectSeq(rows, LAMBDA r : r.ID \notin hidden)
            res == doRequest(IF fails THEN Resp500 ELSE Resp200(list))
        IN /\ calls' = Append(calls, Call("ListPermissionSetAssignments", "", "",
                                          res.err.isNil))
           /\ IF res.err.isNil
              THEN LET out == CreateReconcile(res.payload, data, state)
                   IN /\ assignments' = res.payload
                      /\ diags' = diags \o out.diags
                      /\ state' = out.state
              ELSE /\ diags' = Append(diags, Diag("error", "Client Error", ""))
                   /\ UNCHANGED <<assignments, state>>
    /\ pc' = "idle"
    /\ UNCHANGED <<rows, nextId, data, depIdx, lastOp, fanout, created, fetched, ownRows>>

\* a fetch is answered by the backend, or fails with a 500
GetChoices == {"backend", "500"}

\* Read, lines 241-316
Read ==
    /\ pc = "idle"
    /\ state.present
    /\ \E assignmentIDs \in {Split(state.ID)} :
         \E choice \in [1..Len(assignmentIDs) -> GetChoices] :
           \E got \in {ReadFetch(assignmentIDs,
                                 [i \in 1..Len(assignmentIDs) |->
                                     IF choice[i] = "backend"
                                     THEN BackendGet(rows, assignmentIDs[i])
                                     ELSE Resp500])} :
             \E out \in {ReadReconcile(state, got)} :
                /\ fetched' = got
                /\ calls' = [i \in 1..Len(got) |->
                                Call("GetPermissionSetAssignment", "", got[i].id,
                                     got[i].ok)]
                /\ diags' = out.diags
                /\ state' = out.state
                /\ data' = IF out.state.present THEN data ELSE NoPlan
                /\ fanout' = IF out.state.present THEN fanout ELSE {}
    /\ lastOp' = "Read"
    /\ depIdx' = 0
    /\ assignments' = <<>>
    /\ UNCHANGED <<rows, nextId, pc, created, ownRows>>

\* Delete, lines 326-359; the host drops the state when Delete reports no error
Delete ==
    /\ pc = "idle"
    /\ state.present
    /\ \E assignmentIDs \in {Split(state.ID)} :
         \E fails \in [1..Len(assignmentIDs) -> BOOLEAN] :
           \E out \in {DeleteLoop(rows, assignmentIDs, fails, 1, <<>>, <<>>)} :
              /\ rows' = out.rows
              /\ fetched' = out.answers
              /\ calls' = [i \in 1..Len(out.answers) |->
                              Call("DeletePermissionSetAssignment", "", out.answers[i].id,
                                   out.answers[i].ok)]
              /\ diags' = IF Len(out.failed) > 0
                          THEN <<Diag("error", "Client Error", out.failed)>> ELSE <<>>
              /\ state' = IF Len(out.failed) > 0 THEN state ELSE NoState
              /\ data' = IF Len(out.failed) > 0 THEN data ELSE NoPlan
              /\ fanout' = IF Len(out.failed) > 0 THEN fanout ELSE {}
    /\ lastOp' = "Delete"
    /\ depIdx' = 0
    /\ assignments' = <<>>
    /\ UNCHANGED <<nextId, pc, created, ownRows>>

\* Update, lines 318-324: the host calls it with a changed plan for a resource
\* it tracks
Update ==
    /\ pc = "idle"
    /\ state.present
    /\ \E plan \in Plans :
         \E out \in {UpdateReconcile(state, plan)} :
            /\ diags' = out.diags
            /\ calls' = out.calls
            /\ state' = out.state
    /\ lastOp' = "Update"
    /\ depIdx' = 0
    /\ assignments' = <<>>
    /\ fetched' = <<>>
    /\ UNCHANGED <<rows, nextId, pc, data, fanout, created, ownRows>>

\* a row deleted outside this resource
ExternalDelete ==
    /\ pc = "idle"
    /\ \E i \in 1..Len(rows) : rows' = BackendDelete(rows, rows[i].ID)
    /\ lastOp' = "external"
    /\ diags' = <<>>
    /\ calls' = <<>>
    /\ assignments' = <<>>
    /\ fetched' = <<>>
    /\ UNCHANGED <<nextId, state, pc, data, depIdx, fanout, created, ownRows>>

----------------------------------------------------------------------------
(* SpecPred: isDependencyNotFoundError applied to bounded inputs *)

PredInit ==
    /\ \E in \in PredInputs : perr = in.err /\ pexpect = in.expect
    /\ pverdict = "none"
    /\ phandler = "none"

PredCall ==
    /\ pverdict = "none"
    /\ pverdict' = IF isDependencyNotFoundError(perr) THEN "true" ELSE "false"
    /\ UNCHANGED <<perr, pexpect, phandler>>

\* the test Read (line 267), Delete (line 348) and the cascade poll (line 341)
\* apply to the error of a client call; they test errors that are not nil
HandlerTest ==
    /\ phandler = "none"
    /\ ~perr.isNil
    /\ phandler' = IF isNotFoundText(perr) THEN "true" ELSE "false"
    /\ UNCHANGED <<perr, pexpect, pverdict>>

----------------------------------------------------------------------------
(* SpecWait: one waitForDependency call, step by step *)

WaitKinds == {"permission_set", "aws_account", "user", "group", "test_resource"}

WaitInit ==
    /\ wkind \in WaitKinds
    /\ wid \in {"test-id", "p1"}
    /\ w = WaitStart
    /\ wctx = "live"

WaitProbeStep ==
    /\ w.pc = "probe"
    /\ \E out \in ProbeOutcomes : w' = WaitProbe(w, wkind, wid, out)
    /\ UNCHANGED <<wkind, wid, wctx>>

WaitSelectStep ==
    /\ w.pc = "select"
    /\ w' = WaitSelect(w, wkind, wid, wctx = "done")
    /\ UNCHANGED <<wkind, wid, wctx>>

\* cancel() or the context's own deadline, at any moment of the call
CtxCancel ==
    /\ w.pc # "done"
    /\ wctx = "live"
    /\ wctx' = "done"
    /\ UNCHANGED <<wkind, wid, w>>


----------------------------------------------------------------------------
(* SpecCascade: Delete of a permission set or an AWS account, with the
   cascading delete of the assignments that reference it *)

\* most assignment rows in the backend when the parent is deleted
MaxCascadeRows == 2
\* most fetches of the verification poll that fail with a 500
MaxPollFaults == 1

\* budget and interval of the verification poll, in seconds
maxWaitTime == 30
pollInterval == 2

Parents ==
    { [kind |-> "permission_set", id |-> "p1"], [kind |-> "aws_account", id |-> "A"] }

\* the filter of the cascade: assignment.PermissionSetID == permissionSetID in
\* PermissionSetResource.Delete, assignment.AccountID == accountID in
\* AWSAccountResource.Delete
ReferencesAnything(r, parent) == TRUE

References(r, parent) ==
    IF parent.kind = "permission_set" THEN r.PermissionSetID = parent.id
    ELSE r.AccountID = parent.id

ParentDeleteCall(parent) ==
    IF parent.kind = "permission_set" THEN "DeletePermissionSet" ELSE "DeleteAWSAccount"

\* the backend before the Delete: rows of user dev for distinct
\* (permission set, account) pairs
CascadeRows ==
    LET pairs == PermSets \X Accounts
        seqs == {q \in SeqsUpTo(pairs, MaxCascadeRows) :
                    \A i, j \in 1..Len(q) : i # j => q[i] # q[j]}
    IN {[i \in 1..Len(q) |-> Row(RowId(i), q[i][1], "USER", "dev", q[i][2])] : q \in seqs}

\* the delete loop over the listed assignments: ids deleted, ids that failed
CascadeDeleteLoopAbort(list, parent, fails) ==
    LET matching == SelectSeq(list, LAMBDA r : References(r, parent))
        firstBad == IF \E i \in 1..Len(matching) : fails[i]
                    THEN SetMin({i \in 1..Len(matching) : fails[i]})
                    ELSE Len(matching) + 1
    IN [attempted |-> [i \in 1..(IF firstBad > Len(matching) THEN Len(matching)
                                  ELSE firstBad) |-> matching[i].ID],
        deleted |-> [i \in 1..(firstBad - 1) |-> matching[i].ID],
        failed |-> IF firstBad > Len(matching) THEN <<>> ELSE <<matching[firstBad].ID>>]

CascadeDeleteLoop(list, parent, fails) ==
    LET matching == SelectSeq(list, LAMBDA r : References(r, parent))
        idx == 1..Len(matching)
        okIdx == SelectSeq([i \in idx |-> i], LAMBDA i : ~fails[i])
        badIdx == SelectSeq([i \in idx |-> i], LAMBDA i : fails[i])
    IN [attempted |-> [i \in idx |-> matching[i].ID],
        deleted |-> [n \in 1..Len(okIdx) |-> matching[okIdx[n]].ID],
        failed |-> [n \in 1..Len(badIdx) |-> matching[badIdx[n]].ID]]

\* one round of the verification poll over deletedIDs: a fetch that succeeds
\* sets stillExists and breaks; a failure that is not a not-found is warned
PollRoundSeesNothing(rs, ids, choice, i, acc) ==
    [acc EXCEPT !.gets = [k \in 1..Len(ids) |-> [id |-> ids[k], status |-> 404]]]

RECURSIVE PollRound(_, _, _, _, _)
PollRound(rs, ids, choice, i, acc) ==
    IF i > Len(ids) THEN acc
    ELSE LET resp == IF choice[i] = "500" THEN Resp500 ELSE BackendGet(rs, ids[i])
             err == doRequest(resp).err
             got == Append(acc.gets, [id |-> ids[i], status |-> resp.status])
         IN IF err.isNil
            THEN [acc EXCEPT !.stillExists = TRUE, !.gets = got]
            ELSE PollRound(rs, ids, choice, i + 1,
                           [acc EXCEPT !.gets = got,
                                       !.warned = IF ~isNotFoundText(err)
                                                  THEN Append(@, ids[i]) ELSE @])

PollStart == [stillExists |-> FALSE, warned |-> <<>>, gets |-> <<>>]

\* the loop condition of the verification poll
PollGoesOn(elapsed) == elapsed < maxWaitTime

\* no poll round has run
NoRound == [clean |-> FALSE, gets |-> <<>>]

CascadeInit ==
    /\ cparent \in Parents
    /\ crows \in CascadeRows
    /\ lingering = {}
    /\ cpc = "list"
    /\ clist = <<>>
    /\ deletedIDs = <<>>
    /\ deleteErrors = <<>>
    /\ cdiags = <<>>
    /\ ccalls = <<>>
    /\ celapsed = 0
    /\ cround = NoRound
    /\ cctx = "live"

\* Delete: the ListPermissionSetAssignments call
CascadeList ==
    /\ cpc = "list"
    /\ \E fails \in BOOLEAN :
        \E res \in {doRequest(IF fails THEN Resp500 ELSE Resp200(crows))} :
           /\ ccalls' = Append(ccalls, Call("ListPermissionSetAssignments", "", "",
                                             res.err.isNil))
           /\ IF res.err.isNil
              THEN /\ clist' = res.payload
                   /\ cdiags' = cdiags
                   /\ cpc' = "delete"
              ELSE /\ clist' = clist
                   /\ cdiags' = Append(cdiags, Diag("warning", "Unable to List Assignments", ""))
                   /\ cpc' = "parent"
    /\ UNCHANGED <<cparent, crows, lingering, deletedIDs, deleteErrors, celapsed, cround, cctx>>

\* Delete: the loop of assignment deletes and the two warnings after it; the
\* backend cleans a deleted row up asynchronously
CascadeDelete ==
    /\ cpc = "delete"
    /\ \E fails \in [1..Len(SelectSeq(clist, LAMBDA r : References(r, cparent))) -> BOOLEAN] :
        \E out \in {CascadeDeleteLoop(clist, cparent, fails)} :
           /\ deletedIDs' = out.deleted
           /\ deleteErrors' = out.failed
           /\ lingering' = Range(out.deleted)
           /\ ccalls' = ccalls \o
                 [i \in 1..Len(out.attempted) |->
                     Call("DeletePermissionSetAssignment", "", out.attempted[i],
                          out.attempted[i] \in Range(out.deleted))]
           /\ cdiags' = cdiags
                 \o (IF Len(out.failed) > 0
                     THEN <<Diag("warning", "Failed to Delete Some Assignments", out.failed)>>
                     ELSE <<>>)
                 \o (IF Len(out.deleted) > 0
                     THEN <<Diag("warning", "Automatic Assignment Cleanup", "")>>
                     ELSE <<>>)
           /\ cpc' = IF Len(out.deleted) > 0 THEN "poll" ELSE "parent"
    /\ celapsed' = 0
    /\ UNCHANGED <<cparent, crows, clist, cround, cctx>>

\* Delete: the loop condition, one round of fetches, and on leaving the loop
\* the final check of the budget
CascadePoll ==
    /\ cpc = "poll"
    /\ IF PollGoesOn(celapsed)
       THEN \E choice \in [1..Len(deletedIDs) -> GetChoices] :
              \E out \in {PollRound(crows, deletedIDs, choice, 1, PollStart)} :
                 /\ Len(Warnings(cdiags, "Error Checking Assignment Status"))
                       + Len(out.warned) <= MaxPollFaults
                 /\ cround' = [clean |-> ~out.stillExists, gets |-> out.gets]
                 /\ cdiags' = cdiags
                       \o [i \in 1..Len(out.warned) |->
                              Diag("warning", "Error Checking Assignment Status", out.warned[i])]
                       \o (IF ~out.stillExists /\ celapsed >= maxWaitTime
                           THEN <<Diag("warning", "Assignment Deletion Timeout", "")>>
                           ELSE <<>>)
                 /\ cpc' = IF out.stillExists THEN "sleep" ELSE "parent"
       ELSE /\ cdiags' = IF celapsed >= maxWaitTime
                         THEN Append(cdiags, Diag("warning", "Assignment Deletion Timeout", ""))
                         ELSE cdiags
            /\ cpc' = "parent"
            /\ UNCHANGED cround
    /\ UNCHANGED <<cparent, crows, lingering, clist, deletedIDs, deleteErrors, ccalls, celapsed,
                   cctx>>

\* Delete: time.Sleep(pollInterval)
CascadeSleep ==
    /\ cpc = "sleep"
    /\ celapsed' = celapsed + pollInterval
    /\ cpc' = "poll"
    /\ UNCHANGED <<cparent, crows, lingering, clist, deletedIDs, deleteErrors, cdiags, ccalls,
                   cround, cctx>>

\* Delete: the DeletePermissionSet / DeleteAWSAccount call; the backend
\* rejects the deletion of a parent that is still referenced
CascadeParent ==
    /\ cpc = "parent"
    /\ \E fails \in BOOLEAN :
        \E res \in {doRequest(IF fails \/ \E i \in 1..Len(crows) : References(crows[i], cparent)
                              THEN Resp500 ELSE Resp200(NoData))} :
           /\ ccalls' = Append(ccalls, Call(ParentDeleteCall(cparent), "", cparent.id,
                                             res.err.isNil))
           /\ cdiags' = IF res.err.isNil THEN cdiags
                        ELSE Append(cdiags, Diag("error", "Client Error", ""))
    /\ cpc' = "done"
    /\ UNCHANGED <<cparent, crows, lingering, clist, deletedIDs, deleteErrors, celapsed,
                   cround, cctx>>

\* the backend finishes the cleanup of a deleted row
CascadeSettle ==
    /\ cpc # "done"
    /\ \E id \in lingering :
        /\ crows' = BackendDelete(crows, id)
        /\ lingering' = lingering \ {id}
    /\ UNCHANGED <<cparent, cpc, clist, deletedIDs, deleteErrors, cdiags, ccalls, celapsed,
                   cround, cctx>>

\* the enclosing context is cancelled; Delete hands ctx to req.State.Get only
CascadeCtxCancel ==
    /\ cpc # "done"
    /\ cctx = "live"
    /\ cctx' = "done"
    /\ UNCHANGED <<cparent, crows, lingering, cpc, clist, deletedIDs, deleteErrors, cdiags,
                   ccalls, celapsed, cround>>

----------------------------------------------------------------------------
(* SpecClient: Client.doRequest applied to one HTTP response *)

\* status codes the client can be handed: success, created, not modified (a
\* 3xx the transport does not follow), not found, server error
Statuses == {200, 201, 304, 404, 500}

SEnvelope == <<"{", "}">>

ClientResponses ==
    {HttpRaw(st, body) : st \in Statuses, body \in {<<>>, SServerBroke, SNotFound}}
    \cup {Http(st, SEnvelope, success, error, payload) :
             st \in Statuses, success \in BOOLEAN, error \in {<<>>, SNotFound},
             payload \in {<<>>, <<Row(RowId(1), "p1", "USER", "dev", "A")>>,
                          <<Row(RowId(1), "p1", "USER", "dev", "A"),
                            Row(RowId(2), "p1", "USER", "dev", "B")>>}}

NotCalled == [done |-> FALSE, err |-> Nil, data |-> <<>>]

ClientInit ==
    /\ hresp \in ClientResponses
    /\ hout = NotCalled

ClientCall ==
    /\ ~hout.done
    /\ \E res \in {doRequest(hresp)} :
         \* data: what the caller hands to json.Unmarshal, nothing on an error
         hout' = [done |-> TRUE, err |-> res.err,
                  data |-> IF res.err.isNil THEN <<res.payload>> ELSE <<>>]
    /\ UNCHANGED hresp

----------------------------------------------------------------------------
(* SpecParse: the composite id as Read and Delete parse it *)

\* longest composite id string drawn character by character
MaxIdLen == 3

IdChars == {"r", "1", ","}

\* ids produced by Create: what the matching recovers from a list of rows of
\* the planned principal, and the id it persists for them
CreateLists ==
    {<<>>}
    \cup {<<Row(RowId(1), "p1", "USER", "dev", a)>> : a \in Accounts}
    \cup {<<Row(RowId(1), "p1", "USER", "dev", a), Row(RowId(2), "p1", "USER", "dev", b)>> :
             a \in Accounts, b \in Accounts}

ParseInputs ==
    {[id |-> q, fromCreate |-> FALSE, recovered |-> <<>>] : q \in SeqsUpTo(IdChars, MaxIdLen)}
    \cup {[id |-> CreateReconcile(list, d, NoState).state.ID, fromCreate |-> TRUE,
           recovered |-> createdAssignmentIDs(list, d)] :
             list \in CreateLists, d \in {p \in Plans : p.PrincipalType = "USER"}}

NotParsed == [done |-> FALSE, ids |-> <<>>]

ParseInit ==
    \* Create persists an id only when it recovered at least one row
    /\ qin \in {in \in ParseInputs : in.fromCreate => Len(in.recovered) > 0}
    /\ qread = NotParsed
    /\ qdelete = NotParsed

\* Read, lines 250-280: the ids it calls GetPermissionSetAssignment with
ParseRead ==
    /\ ~qread.done
    /\ \E assignmentIDs \in {Split(qin.id)} :
         \E choice \in [1..Len(assignmentIDs) -> GetChoices] :
           \E got \in {ReadFetch(assignmentIDs,
                                 [i \in 1..Len(assignmentIDs) |->
                                     IF choice[i] = "backend"
                                     THEN BackendGet(<<>>, assignmentIDs[i])
                                     ELSE Resp500])} :
              qread' = [done |-> TRUE, ids |-> [i \in 1..Len(got) |-> got[i].id]]
    /\ UNCHANGED <<qin, qdelete>>

\* Delete, lines 335-353: the ids it calls DeletePermissionSetAssignment with
ParseDelete ==
    /\ ~qdelete.done
    /\ \E assignmentIDs \in {Split(qin.id)} :
         \E fails \in [1..Len(assignmentIDs) -> BOOLEAN] :
           \E out \in {DeleteLoop(<<>>, assignmentIDs, fails, 1, <<>>, <<>>)} :
              qdelete' = [done |-> TRUE,
                          ids |-> [i \in 1..Len(out.answers) |-> out.answers[i].id]]
    /\ UNCHANGED <<qin, qread>>

----------------------------------------------------------------------------
(* SpecIdp: IdentityProviderResource.Create and Update, from the plan's config
   string to the client call *)

\* longest config string drawn character by character
MaxConfigLen == 3

\* the characters of JSON structure: braces, brackets, the quote, colon, comma
SQ == "\""
JsonChars == {"{", "}", "[", "]", SQ, ":", ","}

\* encoding/json's scanner on a text without white space, literals or
\* escapes: the position after the value that starts at i, 0 when there is none
jsonString(s, i) ==
    IF i > Len(s) \/ s[i] # SQ THEN 0
    ELSE LET closing == {j \in (i + 1)..Len(s) : s[j] = SQ}
         IN IF closing = {} THEN 0 ELSE SetMin(closing) + 1

RECURSIVE jsonValue(_, _), jsonMembers(_, _), jsonElements(_, _)
jsonValue(s, i) ==
    IF i > Len(s) THEN 0
    ELSE IF s[i] = SQ THEN jsonString(s, i)
    ELSE IF s[i] = "{"
         THEN IF i + 1 <= Len(s) /\ s[i + 1] = "}" THEN i + 2 ELSE jsonMembers(s, i + 1)
    ELSE IF s[i] = "["
         THEN IF i + 1 <= Len(s) /\ s[i + 1] = "]" THEN i + 2 ELSE jsonElements(s, i + 1)
    ELSE 0

jsonMembers(s, i) ==
    LET k == jsonString(s, i)
    IN IF k = 0 \/ k > Len(s) \/ s[k] # ":" THEN 0
       ELSE LET v == jsonValue(s, k + 1)
            IN IF v = 0 \/ v > Len(s) THEN 0
               ELSE IF s[v] = "," THEN jsonMembers(s, v + 1)
               ELSE IF s[v] = "}" THEN v + 1
               ELSE 0

jsonElements(s, i) ==
    LET v == jsonValue(s, i)
    IN IF v = 0 \/ v > Len(s) THEN 0
       ELSE IF s[v] = "," THEN jsonElements(s, v + 1)
       ELSE IF s[v] = "]" THEN v + 1
       ELSE 0

\* json.Unmarshal([]byte(config), &map[string]interface{}): whether it
\* returns nil; a text that is not JSON is a syntax error, JSON that is not an
\* object is a type error
jsonUnmarshalMap(s) == jsonValue(s, 1) = Len(s) + 1 /\ s[1] = "{"

\* config strings longer than MaxConfigLen: objects with members, and what
\* is left of them when one character is lost
ConfigTexts ==
    { <<"{", SQ, SQ, ":", SQ, SQ, "}">>,
      <<"{", SQ, SQ, ":", "[", "]", "}">>,
      <<"{", SQ, ",", SQ, ":", "{", "}", "}">>,
      <<"{", SQ, SQ, ":", "[", SQ, SQ, ",", SQ, SQ, "]", "}">>,
      <<"{", SQ, SQ, ":", SQ, SQ, ",", SQ, SQ, ":", "{", "}", "}">>,
      <<"[", SQ, SQ, ",", SQ, SQ, "]">> }

DropChar(s, i) == SubSeq(s, 1, i - 1) \o SubSeq(s, i + 1, Len(s))

ConfigInputs ==
    SeqsUpTo(JsonChars, MaxConfigLen)
    \cup ConfigTexts
    \cup UNION {{DropChar(t, i) : i \in 1..Len(t)} : t \in ConfigTexts}

NoIdp == [present |-> FALSE, Config |-> <<>>]
TrackedIdp == [present |-> TRUE, Config |-> <<"{", "}">>]

\* Create lines 108-152, Update lines 189-226: diagnostics, calls and state
IdpReconcileCallsFirst(call, st, config, apiFails) ==
    IF apiFails
    THEN [diags |-> <<Diag("error", "Client Error", "")>>,
          calls |-> <<Call(call, "", "", FALSE)>>, state |-> st]
    ELSE IF ~jsonUnmarshalMap(config)
    THEN [diags |-> <<Diag("error", "Invalid Configuration", "")>>,
          calls |-> <<Call(call, "", "", TRUE)>>, state |-> st]
    ELSE [diags |-> <<>>, calls |-> <<Call(call, "", "", TRUE)>>,
          state |-> [present |-> TRUE, Config |-> config]]

IdpReconcile(call, st, config, apiFails) ==
    IF ~jsonUnmarshalMap(config)
    THEN [diags |-> <<Diag("error", "Invalid Configuration", "")>>,
          calls |-> <<>>, state |-> st]
    ELSE IF apiFails
    THEN [diags |-> <<Diag("error", "Client Error", "")>>,
          calls |-> <<Call(call, "", "", FALSE)>>, state |-> st]
    ELSE [diags |-> <<>>, calls |-> <<Call(call, "", "", TRUE)>>,
          state |-> [present |-> TRUE, Config |-> config]]

IdpInit ==
    /\ iconfig = <<>>
    /\ istate \in {NoIdp, TrackedIdp}
    /\ icalls = <<>>
    /\ idiags = <<>>
    /\ iop = "none"

IdpCreate ==
    /\ iop = "none"
    /\ ~istate.present
    /\ \E config \in ConfigInputs, apiFails \in BOOLEAN :
         \E out \in {IdpReconcile("CreateIdentityProvider", istate, config, apiFails)} :
            /\ iconfig' = config
            /\ idiags' = out.diags
            /\ icalls' = out.calls
            /\ istate' = out.state
    /\ iop' = "Create"

IdpUpdate ==
    /\ iop = "none"
    /\ istate.present
    /\ \E config \in ConfigInputs, apiFails \in BOOLEAN :
         \E out \in {IdpReconcile("UpdateIdentityProvider", istate, config, apiFails)} :
            /\ iconfig' = config
            /\ idiags' = out.diags
            /\ icalls' = out.calls
            /\ istate' = out.state
    /\ iop' = "Update"

----------------------------------------------------------------------------
(* Specifications *)

vars == <<pvars, wvars, avars, cvars, qvars, hvars, ivars>>

PredIdle == perr = Nil /\ pexpect = FALSE /\ pverdict = "none" /\ phandler = "none"
WaitIdle == wkind = "test_resource" /\ wid = "test-id" /\ w = WaitStart /\ wctx = "live"

AssignIdle == AssignInit /\ rows = <<>>
CascadeIdle == CascadeInit /\ crows = <<>> /\ cparent.kind = "permission_set"
ParseIdle ==
    /\ qin = [id |-> <<>>, fromCreate |-> FALSE, recovered |-> <<>>]
    /\ qread = NotParsed
    /\ qdelete = NotParsed
ClientIdle == hresp = Resp200(<<>>) /\ hout = NotCalled
IdpIdle == IdpInit /\ ~istate.present

InitPred == PredInit /\ WaitIdle /\ AssignIdle /\ CascadeIdle /\ ParseIdle /\ ClientIdle /\ IdpIdle
NextPred ==
    \/ PredCall /\ UNCHANGED <<wvars, avars, cvars, qvars, hvars, ivars>>
    \/ HandlerTest /\ UNCHANGED <<wvars, avars, cvars, qvars, hvars, ivars>>
SpecPred == InitPred /\ [][NextPred]_vars

WaitNext ==
    \/ WaitProbeStep /\ UNCHANGED <<pvars, avars, cvars, qvars, hvars, ivars>>
    \/ WaitSelectStep /\ UNCHANGED <<pvars, avars, cvars, qvars, hvars, ivars>>
    \/ CtxCancel /\ UNCHANGED <<pvars, avars, cvars, qvars, hvars, ivars>>

InitWait == WaitInit /\ PredIdle /\ AssignIdle /\ CascadeIdle /\ ParseIdle /\ ClientIdle /\ IdpIdle
SpecWait == InitWait /\ [][WaitNext]_vars

\* the call keeps running: a probe returns, a poll wait ends
WaitRun == (WaitProbeStep \/ WaitSelectStep) /\ UNCHANGED <<pvars, avars, cvars, qvars, hvars, ivars>>
SpecWaitLive == SpecWait /\ WF_vars(WaitRun)

Init == AssignInit /\ PredIdle /\ WaitIdle /\ CascadeIdle /\ ParseIdle /\ ClientIdle /\ IdpIdle

Next ==
    \/ CreateBegin /\ UNCHANGED <<pvars, wvars, cvars, qvars, hvars, ivars>>
    \/ CreateWait /\ UNCHANGED <<pvars, wvars, cvars, qvars, hvars, ivars>>
    \/ CreateCall /\ UNCHANGED <<pvars, wvars, cvars, qvars, hvars, ivars>>
    \/ CreateList /\ UNCHANGED <<pvars, wvars, cvars, qvars, hvars, ivars>>
    \/ Read /\ UNCHANGED <<pvars, wvars, cvars, qvars, hvars, ivars>>
    \/ Delete /\ UNCHANGED <<pvars, wvars, cvars, qvars, hvars, ivars>>
    \/ Update /\ UNCHANGED <<pvars, wvars, cvars, qvars, hvars, ivars>>
    \/ ExternalDelete /\ UNCHANGED <<pvars, wvars, cvars, qvars, hvars, ivars>>

Spec == Init /\ [][Next]_vars

InitCascade == CascadeInit /\ PredIdle /\ WaitIdle /\ AssignIdle /\ ParseIdle /\ ClientIdle /\ IdpIdle

CascadeHandler ==
    \/ CascadeList /\ UNCHANGED <<pvars, wvars, avars, qvars, hvars, ivars>>
    \/ CascadeDelete /\ UNCHANGED <<pvars, wvars, avars, qvars, hvars, ivars>>
    \/ CascadePoll /\ UNCHANGED <<pvars, wvars, avars, qvars, hvars, ivars>>
    \/ CascadeSleep /\ UNCHANGED <<pvars, wvars, avars, qvars, hvars, ivars>>
    \/ CascadeParent /\ UNCHANGED <<pvars, wvars, avars, qvars, hvars, ivars>>

NextCascade ==
    \/ CascadeHandler
    \/ CascadeSettle /\ UNCHANGED <<pvars, wvars, avars, qvars, hvars, ivars>>
    \/ CascadeCtxCancel /\ UNCHANGED <<pvars, wvars, avars, qvars, hvars, ivars>>

SpecCascade == InitCascade /\ [][NextCascade]_vars

\* the handler keeps running: none of its steps waits for anything but time
SpecCascadeLive == SpecCascade /\ WF_vars(CascadeHandler)

InitParse == ParseInit /\ PredIdle /\ WaitIdle /\ AssignIdle /\ CascadeIdle /\ ClientIdle /\ IdpIdle

NextParse ==
    \/ ParseRead /\ UNCHANGED <<pvars, wvars, avars, cvars, hvars, ivars>>
    \/ ParseDelete /\ UNCHANGED <<pvars, wvars, avars, cvars, hvars, ivars>>

SpecParse == InitParse /\ [][NextParse]_vars

InitClient == ClientInit /\ PredIdle /\ WaitIdle /\ AssignIdle /\ CascadeIdle /\ ParseIdle /\ IdpIdle
NextClient == ClientCall /\ UNCHANGED <<pvars, wvars, avars, cvars, qvars, ivars>>
SpecClient == InitClient /\ [][NextClient]_vars

InitIdp ==
    IdpInit /\ PredIdle /\ WaitIdle /\ AssignIdle /\ CascadeIdle /\ ParseIdle /\ ClientIdle

NextIdp ==
    \/ IdpCreate /\ UNCHANGED <<pvars, wvars, avars, cvars, qvars, hvars>>
    \/ IdpUpdate /\ UNCHANGED <<pvars, wvars, avars, cvars, qvars, hvars>>

SpecIdp == InitIdp /\ [][NextIdp]_vars

----------------------------------------------------------------------------
(* Claims about waitForDependency and isDependencyNotFoundError *)

\* C1: when the first k-1 probe calls fail with a not-found error and the k-th
\* succeeds, waitForDependency has returned nil after exactly k probe calls
\* (and a returned call makes no further probe call); it returns nil in no
\* other case.
C1_ReturnsAtFirstSuccess ==
    /\ w.last = "ok" => /\ w.pc = "done"
                        /\ w.result = Nil
                        /\ w.calls = w.nfs + 1
    /\ (w.pc = "done" /\ w.result = Nil) => w.last = "ok"

\* two not-found failures, then success: returned nil after exactly 3 calls
C1_Witness == w.pc = "done" /\ w.result = Nil /\ w.calls = 3 /\ w.nfs = 2

\* C2: the first probe error that is not a not-found error ends the call at
\* once, also after retryable failures, with an error that contains
\* 'error checking <kind> "<id>"'.
C2_NonRetryableErrorReturnsAtOnce ==
    w.last = "other" =>
        /\ w.pc = "done"
        /\ w.calls = w.nfs + 1
        /\ ~w.result.isNil
        /\ Contains(w.result.msg, SErrorChecking \o KindAndId(wkind, wid))

\* a 404 followed by a 500: exactly 2 probe calls
C2_Witness == w.pc = "done" /\ w.last = "other" /\ w.calls = 2 /\ w.nfs = 1

\* C3: when the first probe call succeeds the call returns nil after one
\* probe call and without any poll-interval wait.
C3_ImmediateSuccessNoSleep ==
    (w.calls = 1 /\ w.last = "ok") =>
        /\ w.pc = "done"
        /\ w.result = Nil
        /\ w.sleeps = 0
        /\ w.elapsed = 0

C3_Witness == w.pc = "done" /\ w.calls = 1 /\ w.last = "ok" /\ w.result = Nil

\* C4: isDependencyNotFoundError is true exactly for the messages built around
\* "404" or around "not found" in any letter case, and false for nil.
C4_NotFoundPredicate ==
    pverdict # "none" => ((pverdict = "true") <=> pexpect)

\* "Not Found" with capitals is classified as not-found
C4_Witness ==
    /\ pverdict = "true"
    /\ pexpect
    /\ Contains(perr.msg, NotFoundVariant({1, 5}))

----------------------------------------------------------------------------
(* Claims about PermissionSetAssignmentResource.Create *)

CallsOf(op) == {i \in 1..Len(calls) : calls[i].op = op}

\* the waits the claim demands, written out from its words: the permission
\* set, every requested account in the order of the request, the principal
ExpectedWaits(d) ==
    <<Call("waitForDependency", "permission_set", d.PermissionSetID, TRUE)>>
    \o [i \in 1..Len(d.AccountIDs) |->
            Call("waitForDependency", "aws_account", d.AccountIDs[i], TRUE)]
    \o <<Call("waitForDependency",
              IF d.PrincipalType = "USER" THEN "user" ELSE "group", d.PrincipalID, TRUE)>>

\* C5: in Create the create call is issued only after the waits for the
\* permission set, every requested account and the principal (user for USER,
\* group for GROUP) have succeeded, in that order; a wait that returns an error
\* ends Create with a Dependency Error, no create call, no list call, no state.
C5_CreateOnlyAfterAllWaits ==
    lastOp = "Create" =>
        /\ \A i \in CallsOf("CreatePermissionSetAssignment") :
              SubSeq(calls, 1, i - 1) = ExpectedWaits(data)
        /\ \A i \in CallsOf("waitForDependency") :
              ~calls[i].ok =>
                  /\ i = Len(calls)
                  /\ pc = "idle"
                  /\ Len(diags) = 1
                  /\ diags[1].sev = "error" /\ diags[1].summary = "Dependency Error"
                  /\ CallsOf("CreatePermissionSetAssignment") = {}
                  /\ CallsOf("ListPermissionSetAssignments") = {}
                  /\ ~state.present

\* the create call of a GROUP assignment across two accounts has been issued
C5_Witness ==
    /\ lastOp = "Create"
    /\ CallsOf("CreatePermissionSetAssignment") # {}
    /\ data.PrincipalType = "GROUP"
    /\ data.AccountIDs = <<"B", "A">>

\* a listed row is the assignment of the requested principal for account a
RowIsFor(r, d, a) ==
    /\ r.PermissionSetID = d.PermissionSetID
    /\ r.PrincipalType = d.PrincipalType
    /\ r.AccountID = a
    /\ IF d.PrincipalType = "USER" THEN r.Username = d.PrincipalID
       ELSE r.GroupName = d.PrincipalID

\* the positions of the request whose account has (has no) matching listed row
MatchedAt(list, d) ==
    {i \in 1..Len(d.AccountIDs) : \E r \in Range(list) : RowIsFor(r, d, d.AccountIDs[i])}
UnmatchedAt(list, d) == (1..Len(d.AccountIDs)) \ MatchedAt(list, d)

\* Create has run to its end and its list call succeeded
CreateListed ==
    /\ lastOp = "Create"
    /\ pc = "idle"
    /\ Len(calls) > 0
    /\ calls[Len(calls)] = Call("ListPermissionSetAssignments", "", "", TRUE)

\* C6: after the create call and the re-list, when no listed row matches any
\* requested account Create fails with an error and persists no state; when
\* some but not all requested accounts have a matching row Create adds one
\* warning per unmatched account, no error, and persists state under a
\* composite id built from the matched rows.
C6_ZeroFailsPartialWarns ==
    CreateListed =>
        LET matched == MatchedAt(assignments, data)
            unmatched == UnmatchedAt(assignments, data)
            warns == Warnings(diags, "Assignment Not Found")
        IN /\ matched = {} => HasError(diags) /\ ~state.present
           /\ (matched # {} /\ unmatched # {}) =>
                 /\ ~HasError(diags)
                 /\ Len(warns) = Cardinality(unmatched)
                 /\ \A i \in unmatched :
                       Cardinality({k \in 1..Len(warns) : warns[k].arg = data.AccountIDs[i]})
                         = Cardinality({j \in unmatched :
                                           data.AccountIDs[j] = data.AccountIDs[i]})
                 /\ state.present
                 /\ Len(Split(state.ID)) = Cardinality(matched)
                 /\ \A id \in Range(Split(state.ID)) :
                       \E r \in Range(assignments), i \in matched :
                          r.ID = id /\ RowIsFor(r, data, data.AccountIDs[i])

\* a Create across A and B whose list shows a row for one of them only
C6_Witness ==
    /\ CreateListed
    /\ Cardinality(MatchedAt(assignments, data)) = 1
    /\ Cardinality(UnmatchedAt(assignments, data)) = 1
    /\ state.present

\* C7: the composite id persisted by a successful Create is the comma-join of
\* ids of listed rows: the n-th id is the id of a listed row whose permission
\* set, principal type, principal identity and account equal the request's for
\* the n-th requested account that has such a row.
C7_CompositeIdInRequestOrder ==
    (CreateListed /\ state.present) =>
        LET matchedAccts ==
                SelectSeq(data.AccountIDs,
                          LAMBDA a : \E r \in Range(assignments) : RowIsFor(r, data, a))
            ids == [n \in 1..Len(matchedAccts) |->
                       (CHOOSE r \in Range(assignments) :
                           RowIsFor(r, data, matchedAccts[n])).ID]
        IN /\ \A a \in Range(matchedAccts) :
                Cardinality({r \in Range(assignments) : RowIsFor(r, data, a)}) = 1
           /\ state.ID = Join(ids)

\* requested <<B, A>> while the row of A is older than the row of B: the id is
\* the id of B's row, a comma, the id of A's row
C7_Witness ==
    /\ CreateListed
    /\ state.present
    /\ data.AccountIDs = <<"B", "A">>
    /\ state.ID = RowId(2) \o SComma \o RowId(1)

----------------------------------------------------------------------------
(* Claims about PermissionSetAssignmentResource.Read *)

\* Read has run on a resource whose composite id names n rows
ReadRan == lastOp = "Read" /\ Len(fetched) > 0
FetchedWith(status) == {i \in 1..Len(fetched) : fetched[i].status = status}

\* the backend row with this id
RowById(rs, id) == rs[CHOOSE i \in 1..Len(rs) : rs[i].ID = id]

C9_PartialDriftKeepsRemainingRows ==
    (/\ ReadRan
     /\ FetchedWith(200) # {}
     /\ FetchedWith(404) # {}
     /\ FetchedWith(200) \cup FetchedWith(404) = 1..Len(fetched)) =>
        LET ids == Split(state.ID)
            left == SelectSeq(ids, LAMBDA id : id \in RowIds(rows))
        IN /\ state.present
           /\ diags = <<Diag("warning", "Partial Assignment Drift", "")>>
           /\ Len(left) = Cardinality(FetchedWith(200))
           /\ state.AccountIDs = [n \in 1..Len(left) |-> RowById(rows, left[n]).AccountID]
           /\ \E id \in Range(left) :
                 LET r == RowById(rows, id)
                 IN /\ state.PermissionSetID = r.PermissionSetID
                    /\ state.PrincipalType = r.PrincipalType
                    /\ state.PrincipalID = IF r.PrincipalType = "USER" THEN r.Username
                                           ELSE r.GroupName

\* the row of B was deleted elsewhere: Read leaves account A alone
C9_Witness ==
    /\ ReadRan
    /\ FetchedWith(200) = {1}
    /\ FetchedWith(404) = {2}
    /\ data.AccountIDs = <<"A", "B">>
    /\ state.AccountIDs = <<"A">>

\* C10: when every row of the composite id answers 404, Read removes the
\* resource from the state and reports no error.
C10_AllRowsGoneRemovesResource ==
    (ReadRan /\ FetchedWith(404) = 1..Len(fetched)) =>
        /\ ~state.present
        /\ ~HasError(diags)

\* both rows of the id were deleted elsewhere and Read found neither
C10_Witness ==
    /\ ReadRan
    /\ FetchedWith(404) = {1, 2}
    /\ ~state.present

----------------------------------------------------------------------------
(* Claims about PermissionSetAssignmentResource.Delete *)

\* C11: a Delete step issues exactly one delete call for every row id of the
\* composite id, in order, whatever the earlier calls answered; a call that
\* answers 404 counts as success; Delete reports an error exactly when a call
\* failed otherwise, and then a single error that names every failed row.
C11_DeleteBestEffort ==
    [][lastOp' = "Delete" =>
         LET ids == Split(state.ID)
             bad == {i \in 1..Len(ids) : fetched'[i].status \notin {200, 404}}
         IN /\ Len(calls') = Len(ids)
            /\ Len(fetched') = Len(ids)
            /\ \A i \in 1..Len(ids) :
                  /\ calls'[i].op = "DeletePermissionSetAssignment"
                  /\ calls'[i].id = ids[i]
                  /\ fetched'[i].id = ids[i]
            /\ HasError(diags') <=> bad # {}
            /\ bad # {} =>
                  /\ Len(diags') = 1
                  /\ {ids[i] : i \in bad} = Range(diags'[1].arg)
                  /\ Len(diags'[1].arg) = Cardinality(bad)
            /\ bad = {} => diags' = <<>>]_vars

\* the first delete call failed with a 500 and the second was still made
C11_Witness ==
    /\ lastOp = "Delete"
    /\ Len(fetched) = 2
    /\ fetched[1].status = 500
    /\ fetched[2].status = 200
    /\ HasError(diags)

----------------------------------------------------------------------------
(* Claims about the cascading delete of a permission set or an AWS account *)

CCallsOf(op) == {i \in 1..Len(ccalls) : ccalls[i].op = op}
\* the ids of the assignment-delete calls made so far, in call order
CascadeDeleteCallIds ==
    LET made == SelectSeq(ccalls, LAMBDA c : c.op = "DeletePermissionSetAssignment")
    IN [i \in 1..Len(made) |-> made[i].id]
\* the list call has succeeded and the delete loop has run
CascadeLoopRan ==
    /\ cpc \notin {"list", "delete"}
    /\ Len(ccalls) > 0
    /\ ccalls[1] = Call("ListPermissionSetAssignments", "", "", TRUE)

\* C12: when the list call succeeds, Delete of a permission set issues exactly
\* one assignment-delete call for each listed assignment of that permission
\* set, none for any other assignment, and all of them before the
\* DeletePermissionSet call.
C12_PermissionSetCascade ==
    cparent.kind = "permission_set" =>
        /\ CascadeLoopRan =>
              LET mine == SelectSeq(clist, LAMBDA r : r.PermissionSetID = cparent.id)
              IN CascadeDeleteCallIds = [i \in 1..Len(mine) |-> mine[i].ID]
        /\ \A i \in CCallsOf("DeletePermissionSetAssignment"),
              j \in CCallsOf("DeletePermissionSet") : i < j
        /\ CCallsOf("DeleteAWSAccount") = {}
        /\ cpc \in {"list", "delete"} =>
              CCallsOf("DeletePermissionSetAssignment") = {}

\* two live assignments of the permission set: two assignment-delete calls,
\* then the DeletePermissionSet call
C12_Witness ==
    /\ cparent.kind = "permission_set"
    /\ cpc = "done"
    /\ Cardinality(CCallsOf("DeletePermissionSetAssignment")) = 2
    /\ Len(ccalls) > 3
    /\ ccalls[2].op = "DeletePermissionSetAssignment"
    /\ ccalls[3].op = "DeletePermissionSetAssignment"
    /\ ccalls[Len(ccalls)].op = "DeletePermissionSet"

\* C13: Delete of an AWS account lists the assignments and issues a delete
\* call for every listed assignment of that account, and for no other
\* assignment, before it issues the DeleteAWSAccount call.
C13_AccountCascade ==
    cparent.kind = "aws_account" =>
        /\ CascadeLoopRan =>
              LET mine == SelectSeq(clist, LAMBDA r : r.AccountID = cparent.id)
              IN CascadeDeleteCallIds = [i \in 1..Len(mine) |-> mine[i].ID]
        /\ \A i \in CCallsOf("DeletePermissionSetAssignment"),
              j \in CCallsOf("DeleteAWSAccount") : i < j
        /\ \A j \in CCallsOf("DeleteAWSAccount") :
              ccalls[1].op = "ListPermissionSetAssignments" /\ j > 1
        /\ CCallsOf("DeletePermissionSet") = {}

\* the account has one assignment among two listed: one assignment-delete
\* call, for that row, and then the DeleteAWSAccount call
C13_Witness ==
    /\ cparent.kind = "aws_account"
    /\ cpc = "done"
    /\ Len(clist) = 2
    /\ clist[1].AccountID # cparent.id
    /\ CascadeDeleteCallIds = <<clist[2].ID>>
    /\ ccalls[Len(ccalls)].op = "DeleteAWSAccount"

ParentCalls == CCallsOf("DeletePermissionSet") \cup CCallsOf("DeleteAWSAccount")
\* the listed rows that reference the parent, for either kind of parent
ListedForParent ==
    SelectSeq(clist, LAMBDA r : IF cparent.kind = "permission_set"
                                THEN r.PermissionSetID = cparent.id
                                ELSE r.AccountID = cparent.id)

C14_NothingAborts ==
    /\ Cardinality(ParentCalls) <= 1
    /\ cpc = "done" => ParentCalls = {Len(ccalls)}
    /\ cpc # "done" => ParentCalls = {} /\ ~HasError(cdiags)
    /\ cpc = "done" => (HasError(cdiags) <=> ~ccalls[Len(ccalls)].ok)
    /\ (cpc # "list" /\ ~ccalls[1].ok) =>
          /\ Len(Warnings(cdiags, "Unable to List Assignments")) = 1
          /\ cpc \in {"parent", "done"}
    /\ CascadeLoopRan =>
          /\ Len(CascadeDeleteCallIds) = Len(ListedForParent)
          /\ Len(Warnings(cdiags, "Failed to Delete Some Assignments"))
                = IF \E i \in CCallsOf("DeletePermissionSetAssignment") : ~ccalls[i].ok
                  THEN 1 ELSE 0
    /\ (cpc \in {"parent", "done"} /\ cround # NoRound /\ ~cround.clean) =>
          Len(Warnings(cdiags, "Assignment Deletion Timeout")) = 1

\* C14: in the cascading pre-delete a failed list call, a failed assignment
\* delete and an exhausted verification poll each add a warning and abort
\* nothing: the remaining assignment deletes are still attempted, every
\* execution reaches the parent delete call and makes it exactly once, and an
\* error is reported only when the parent delete call itself fails.
C14_CascadeFailuresOnlyWarn == []C14_NothingAborts /\ <>(cpc = "done")

\* the first assignment delete failed, the second was made and succeeded, the
\* poll ran out, and the parent delete was still attempted
C14_Witness ==
    /\ cpc = "done"
    /\ Len(deleteErrors) = 1
    /\ Len(deletedIDs) = 1
    /\ ccalls[2].op = "DeletePermissionSetAssignment" /\ ~ccalls[2].ok
    /\ ccalls[3].op = "DeletePermissionSetAssignment" /\ ccalls[3].ok
    /\ Len(Warnings(cdiags, "Assignment Deletion Timeout")) = 1
    /\ ParentCalls = {Len(ccalls)}

C15_ParentWaitsForCleanup ==
    /\ (cpc \in {"parent", "done"} /\ Len(deletedIDs) > 0) =>
          \/ celapsed >= maxWaitTime
          \/ /\ cround.clean
             /\ \A id \in Range(deletedIDs) :
                   id \in RowIds(crows) =>
                      \E k \in 1..Len(cdiags) :
                         /\ cdiags[k].summary = "Error Checking Assignment Status"
                         /\ cdiags[k].arg = id
    /\ cpc \in {"poll", "sleep"} => ~cround.clean
    /\ cround.clean =>
          /\ [k \in 1..Len(cround.gets) |-> cround.gets[k].id] = deletedIDs
          /\ \A k \in 1..Len(cround.gets) : cround.gets[k].status # 200
    /\ celapsed <= maxWaitTime

----------------------------------------------------------------------------
(* Claims about the give-up paths of waitForDependency *)

\* the call has returned after nothing but not-found answers of the probe
GaveUp == w.pc = "done" /\ w.last = "nf" /\ w.calls = w.nfs

C16_NoWaitAfterDeadline ==
    [][wctx = "done" => (w'.sleeps = w.sleeps /\ w'.elapsed = w.elapsed)]_vars

C16_DeadlineError ==
    (GaveUp /\ wctx = "done" /\ w.elapsed < DependencyTimeout) =>
        /\ ~w.result.isNil
        /\ Contains(w.result.msg, SContextCancelled)

\* C16: with a probe that always answers not-found and a context that is done
\* before the internal 60 s are used up, the call waits for no further poll
\* interval once the context is done, and returns, with an error.
C16_ReturnsAtExternalDeadline ==
    /\ C16_NoWaitAfterDeadline
    /\ []C16_DeadlineError
    /\ (wctx = "done" ~> w.pc = "done")

\* the context was done after two poll waits: the call returned at 4 s
C16_Witness ==
    /\ GaveUp
    /\ wctx = "done"
    /\ w.elapsed = 2 * DependencyPollInterval
    /\ ~w.result.isNil

C17_TimeoutOnlyAtBudget ==
    (GaveUp /\ wctx = "live") =>
        /\ ~w.result.isNil
        /\ Contains(w.result.msg, STimedOutAfter)
        /\ w.elapsed >= DependencyTimeout
        /\ w.elapsed < DependencyTimeout + DependencyPollInterval

\* C17: with a probe that always answers not-found and a context that is never
\* done, the call terminates, and it returns an error containing 'timed out
\* after' when the internal budget of 60 s is used up, never nil and never
\* earlier.
C17_InternalTimeoutTerminates ==
    /\ []C17_TimeoutOnlyAtBudget
    /\ [](w.elapsed <= DependencyTimeout)
    /\ <>(w.pc = "done")

\* sixty seconds of not-found answers under a live context
C17_Witness ==
    /\ GaveUp
    /\ wctx = "live"
    /\ w.elapsed = DependencyTimeout
    /\ Contains(w.result.msg, STimedOutAfter)

\* C18: a call that gives up after not-found answers reports either 'context
\* cancelled' or 'timed out after', never both: 'context cancelled' only with
\* the context done and the budget not used up, 'timed out after' only with
\* the budget used up; a context cancelled before the budget is used up is
\* always reported as 'context cancelled'.
C18_GiveUpPathsDistinct ==
    GaveUp =>
        /\ ~w.result.isNil
        /\ Contains(w.result.msg, SContextCancelled) # Contains(w.result.msg, STimedOutAfter)
        /\ Contains(w.result.msg, SContextCancelled) <=>
              (wctx = "done" /\ w.elapsed < DependencyTimeout)
        /\ Contains(w.result.msg, STimedOutAfter) <=> w.elapsed >= DependencyTimeout

\* cancelled while the probe kept answering not-found
C18_Witness ==
    /\ GaveUp
    /\ wctx = "done"
    /\ w.calls = 2
    /\ Contains(w.result.msg, SContextCancelled)
    /\ ~Contains(w.result.msg, STimedOutAfter)

----------------------------------------------------------------------------
(* Claims about cancellation of the waiting loops *)

\* C19: every waiting loop is aborted early when the enclosing context is
\* cancelled and the cancellation is surfaced as an error.  For the
\* verification poll of the cascading delete: with the context done, Delete
\* does not sit out a poll interval; the step it takes from the wait is the
\* return with an error.  The poll sleeps with time.Sleep and never reads the
\* context, so this fails.
C19_CancelAbortsCascadePoll ==
    [][(cctx = "done" /\ cpc = "sleep" /\ cpc' # cpc) =>
          (celapsed' = celapsed /\ cpc' = "done" /\ HasError(cdiags'))]_vars

----------------------------------------------------------------------------
(* Claims about the parsing of the composite id *)

\* C20: for every composite id string the row ids Read fetches are the row ids
\* Delete tries to delete, and for a composite id that Create produced both
\* are the row ids Create recovered.
C20_IdParsedSymmetrically ==
    /\ (qread.done /\ qdelete.done) => qread.ids = qdelete.ids
    /\ (qread.done /\ qin.fromCreate) => qread.ids = qin.recovered
    /\ (qdelete.done /\ qin.fromCreate) => qdelete.ids = qin.recovered

\* the id Create persisted for the rows r2, r1: both handlers parsed it into
\* r2, r1
C20_Witness ==
    /\ qin.fromCreate
    /\ qin.recovered = <<RowId(2), RowId(1)>>
    /\ qread.done
    /\ qdelete.done
    /\ qdelete.ids = <<RowId(2), RowId(1)>>

----------------------------------------------------------------------------
(* Claims about PermissionSetAssignmentResource.Update *)

\* C21: Update always reports the error 'Update Not Supported', issues no API
\* call, and leaves the backend rows and the tracked state as they were.
C21_UpdateNotSupported ==
    [][lastOp' = "Update" =>
          /\ diags' = <<Diag("error", "Update Not Supported", "")>>
          /\ calls' = <<>>
          /\ rows' = rows
          /\ state' = state]_vars

\* Update ran on a tracked resource of two rows whose plan differs from the state
C21_Witness ==
    /\ lastOp = "Update"
    /\ state.present
    /\ Len(Split(state.ID)) = 2
    /\ Len(rows) >= 2
    /\ HasError(diags)

----------------------------------------------------------------------------
(* Claims about Client.doRequest *)

IsTwoXX(status) == status >= 200 /\ status <= 299

\* C22: doRequest returns an error for every response whose status is not
\* 2xx, the error carrying the status code and the raw body; for a 2xx
\* response it returns the envelope's data only when the envelope parses and
\* its success flag is true, and a 2xx response with success = false is an
\* error with no data.
C22_NonTwoXXIsError ==
    hout.done =>
       /\ ~IsTwoXX(hresp.status) =>
             /\ ~hout.err.isNil
             /\ Contains(hout.err.msg, StatusChars(hresp.status))
             /\ Contains(hout.err.msg, hresp.body)
             /\ hout.data = <<>>
       /\ IsTwoXX(hresp.status) =>
             /\ hout.err.isNil <=> (hresp.parses /\ hresp.success)
             /\ hout.err.isNil => hout.data = <<hresp.payload>>
             /\ ~hout.err.isNil => hout.data = <<>>

----------------------------------------------------------------------------
(* Claims about failing fast *)

FailedAt(i) ==
    /\ calls[i].op \in {"CreatePermissionSetAssignment", "ListPermissionSetAssignments"}
    /\ ~calls[i].ok

\* C23: in assignment Create the create call and the list call are each made
\* at most once, and a failure of either ends Create at once with an error and
\* no state persisted.
C23_CreateFailsFast ==
    lastOp = "Create" =>
       /\ Cardinality(CallsOf("CreatePermissionSetAssignment")) <= 1
       /\ Cardinality(CallsOf("ListPermissionSetAssignments")) <= 1
       /\ \A i \in 1..Len(calls) :
             FailedAt(i) => /\ i = Len(calls)
                            /\ pc = "idle"
                            /\ HasError(diags)
                            /\ ~state.present

\* the create call succeeded and made two rows, then the list call failed
C23_Witness ==
    /\ lastOp = "Create"
    /\ Cardinality(CallsOf("CreatePermissionSetAssignment")) = 1
    /\ \A i \in CallsOf("CreatePermissionSetAssignment") : calls[i].ok
    /\ Len(calls) > 0
    /\ calls[Len(calls)].op = "ListPermissionSetAssignments"
    /\ ~calls[Len(calls)].ok
    /\ Cardinality(fanout) = 2
    /\ ~state.present

----------------------------------------------------------------------------
(* Claims about IdentityProviderResource *)

\* the JSON grammar over JsonChars, written as the grammar states it: a value
\* is a string, an object of members or an array of elements
IsJsonString(s) ==
    /\ Len(s) >= 2
    /\ s[1] = SQ
    /\ s[Len(s)] = SQ
    /\ \A j \in 2..(Len(s) - 1) : s[j] # SQ

RECURSIVE IsJsonValue(_), IsJsonElements(_), IsJsonMembers(_)
IsJsonValue(s) ==
    \/ IsJsonString(s)
    \/ /\ Len(s) >= 2
       /\ s[1] = "[" /\ s[Len(s)] = "]"
       /\ Len(s) = 2 \/ IsJsonElements(SubSeq(s, 2, Len(s) - 1))
    \/ /\ Len(s) >= 2
       /\ s[1] = "{" /\ s[Len(s)] = "}"
       /\ Len(s) = 2 \/ IsJsonMembers(SubSeq(s, 2, Len(s) - 1))

IsJsonElements(t) ==
    \/ IsJsonValue(t)
    \/ \E k \in 2..(Len(t) - 1) :
          /\ t[k] = ","
          /\ IsJsonValue(SubSeq(t, 1, k - 1))
          /\ IsJsonElements(SubSeq(t, k + 1, Len(t)))

IsJsonMember(t) ==
    \E k \in 3..(Len(t) - 1) :
       /\ t[k] = ":"
       /\ IsJsonString(SubSeq(t, 1, k - 1))
       /\ IsJsonValue(SubSeq(t, k + 1, Len(t)))

IsJsonMembers(t) ==
    \/ IsJsonMember(t)
    \/ \E k \in 2..(Len(t) - 1) :
          /\ t[k] = ","
          /\ IsJsonMember(SubSeq(t, 1, k - 1))
          /\ IsJsonMembers(SubSeq(t, k + 1, Len(t)))

\* C24: Create and Update given a config string that is not valid JSON report
\* the error 'Invalid Configuration', make no API client call and write no
\* state.
C24_InvalidConfigRejectedFirst ==
    [][(iop' # iop /\ ~IsJsonValue(iconfig')) =>
          /\ idiags' = <<Diag("error", "Invalid Configuration", "")>>
          /\ icalls' = <<>>
          /\ istate' = istate]_vars

\* Update ran on a tracked provider with an object that lost its closing brace
C24_Witness ==
    /\ iop = "Update"
    /\ iconfig = <<"{", SQ, SQ, ":", "[", "]">>
    /\ istate = TrackedIdp
    /\ HasError(idiags)

----------------------------------------------------------------------------
(* Claims about the errors Read and Delete meet *)

\* C25: Read removes the resource from tracked state only when every row id
\* of the composite id answered not-found; when the fetch of at least one row
\* failed with another error, Read keeps the resource.
C25_ReadKeepsOnOtherError ==
    (ReadRan /\ \E i \in 1..Len(fetched) : ~fetched[i].ok /\ ~fetched[i].notFound)
        => state.present

\* C26: Delete only deletes backend rows that the resource's own create call
\* made: a row that existed before Create ran, or that another resource
\* holds, is never deleted by it.
C26_DeleteOnlyOwnRows ==
    [][lastOp' = "Delete" => (RowIds(rows) \ RowIds(rows')) \subseteq ownRows]_vars

\* C27: Read, Delete and the cascade verification poll treat an error as
\* not-found for exactly the errors for which isDependencyNotFoundError
\* returns true.
C27_ClassificationConsistent ==
    (pverdict # "none" /\ phandler # "none") => phandler = pverdict

----------------------------------------------------------------------------
(* Claims about degenerate composite ids *)

\* C28: given an empty composite id Read and Delete find no assignment ids:
\* Read fetches nothing and Delete issues no delete call.
C28_EmptyIdFindsNoIds ==
    qin.id = <<>> =>
       /\ qread.done => qread.ids = <<>>
       /\ qdelete.done => qdelete.ids = <<>>

----------------------------------------------------------------------------
(* Claims about the composite id Create persists *)

CreateSucceeded == lastOp = "Create" /\ pc = "idle" /\ state.present

PairwiseDistinct(q) == \A i, j \in 1..Len(q) : q[i] = q[j] => i = j

\* the entries of the id that name a row of account a
IdsOfAccount(ids, a) ==
    {i \in 1..Len(ids) : \E k \in 1..Len(rows) : rows[k].ID = ids[i] /\ rows[k].AccountID = a}

\* C29 as stated: after a successful Create the composite id is a non-empty
\* list of pairwise distinct backend row ids with at most one row id per
\* requested account id, whatever the requested account list.
C29_IdRowsDistinct ==
    CreateSucceeded =>
       LET ids == Split(state.ID)
       IN /\ state.ID # <<>>
          /\ \A i \in 1..Len(ids) : ids[i] \in RowIds(rows)
          /\ PairwiseDistinct(ids)
          /\ \A a \in Range(data.AccountIDs) : Cardinality(IdsOfAccount(ids, a)) <= 1

\* C29: after a successful Create the composite id is a non-empty list of
\* backend row ids, one per entry of the requested account list for which a
\* row was found; the ids are pairwise distinct, with at most one per
\* account, when the requested account ids are pairwise distinct.
C29_IdRowsDistinctForDistinctAccounts ==
    CreateSucceeded =>
       LET ids == Split(state.ID)
       IN /\ state.ID # <<>>
          /\ \A i \in 1..Len(ids) : ids[i] \in RowIds(rows)
          /\ Len(ids) <= Len(data.AccountIDs)
          /\ PairwiseDistinct(data.AccountIDs) =>
                /\ PairwiseDistinct(ids)
                /\ \A a \in Range(data.AccountIDs) :
                      Cardinality(IdsOfAccount(ids, a)) <= 1

\* Create for the group dev on accounts B, A recovered two rows
C29_Witness ==
    /\ CreateSucceeded
    /\ data.PrincipalType = "GROUP"
    /\ data.AccountIDs = <<"B", "A">>
    /\ Len(Split(state.ID)) = 2
    /\ PairwiseDistinct(Split(state.ID))

\* C30: Read never changes the composite id: after a Read that keeps the
\* resource the id in state is the id before the Read, and a Read of an id
\* that names a row the backend no longer holds reports the drift warning,
\* every time.
C30_ReadKeepsId ==
    [][(lastOp' = "Read" /\ state'.present) =>
          /\ state'.ID = state.ID
          /\ (\E i \in 1..Len(Split(state.ID)) : Split(state.ID)[i] \notin RowIds(rows))
                => Len(Warnings(diags', "Partial Assignment Drift")) = 1]_vars

\* a Read of the id r1,r2 after r1 was deleted elsewhere: the id still names
\* r1, account_ids is down to the account of r2, and the warning is reported
C30_Witness ==
    /\ lastOp = "Read"
    /\ state.present
    /\ Split(state.ID) = <<RowId(1), RowId(2)>>
    /\ RowIds(rows) = {RowId(2)}
    /\ Len(state.AccountIDs) = 1
    /\ Len(data.AccountIDs) = 2
    /\ Len(Warnings(diags, "Partial Assignment Drift")) = 1

====
